---- MODULE Spec2Model ----
(***************************************************************************)
(* State-machine model of the xv6 RDMA subsystem: the memory-region        *)
(* registry and queue-pair engine of kernel/rdma.c and the WRITE/ACK wire  *)
(* protocol of kernel/rdma_net.c, run on two hosts joined by one link.     *)
(*                                                                         *)
(* Sizes are scaled down: machine words are W64/W32/W16 bits wide instead  *)
(* of 64/32/16, a page holds PGSIZE bytes, the tables hold MAX_MRS and     *)
(* MAX_QPS slots.  All arithmetic the code does on uint64/uint32/uint16    *)
(* values is done modulo the scaled width.                                 *)
(***************************************************************************)
EXTENDS Integers, Sequences, FiniteSets, TLC

\* ------------------------------------------------------------ bounds ----

\* Scaled width, in bits, of uint64 (addresses, MR lengths, offsets).
W64 == 4
\* Scaled width, in bits, of uint32 (wr.length, sequence numbers, counters).
W32 == 3
\* Scaled width, in bits, of uint16 (QP numbers on the wire).
W16 == 2
\* Scaled page size in bytes.
PGSIZE == 4
\* Scaled number of MR slots (64 in kernel/rdma.h).
MAX_MRS == 2
\* Scaled number of QP slots (16 in kernel/rdma.h).
MAX_QPS == 2
\* Scaled number of pending-ACK slots per QP (64 in kernel/rdma.c).
NUM_PENDING == 1
\* Scaled capacity of a send queue: work requests in one page,
\* PGSIZE / sizeof(struct rdma_work_request), in the kernel 4096 / 44 = 93.
RING_CAP == 3
\* Scaled capacity of a completion queue: CQEs in one page,
\* PGSIZE / sizeof(struct rdma_completion), in the kernel 4096 / 16 = 256.
CQ_CAP == 4
\* Number of post_send calls explored on each host.
MaxPosts == 1
\* Number of post_send calls explored in the completion-order runs.
OrdPosts == 3
\* Number of frames an outside sender may put on the wire.
MaxInject == 1
\* Work requests posted on a host in a network run.
NetPosts == 1

M64 == 2 ^ W64
M32 == 2 ^ W32
M16 == 2 ^ W16

\* ---------------------------------------------------- program constants --

RDMA_ACCESS_LOCAL_READ == 1
RDMA_ACCESS_LOCAL_WRITE == 2
RDMA_ACCESS_REMOTE_READ == 4
RDMA_ACCESS_REMOTE_WRITE == 8

RDMA_OP_WRITE == 1
RDMA_OP_READ == 2
RDMA_OP_SEND == 3
RDMA_OP_READ_RESP == 4

RDMA_WR_SIGNALED == 1

RDMA_WC_SUCCESS == 0
RDMA_WC_LOC_PROT_ERR == 1
RDMA_WC_REM_ACCESS_ERR == 2
RDMA_WC_LOC_LEN_ERR == 3
RDMA_WC_REM_INV_REQ == 4

RDMA_NET_OP_WRITE == 1
RDMA_NET_OP_READ == 2
RDMA_NET_OP_READ_RESP == 3
RDMA_NET_OP_ACK == 4
RDMA_PKT_FLAG_SIGNALED == 1

\* enum rdma_qp_state as kernel/rdma.c uses it.
QP_STATE_RESET == "RESET"
QP_STATE_INIT == "INIT"
QP_STATE_RTR == "RTR"
QP_STATE_RTS == "RTS"
QP_STATE_ERROR == "ERROR"

\* ------------------------------------------------------ the two hosts ----

Hosts == {1, 2}
Peer(h) == 3 - h
\* local_mac of a host, as e1000_get_mac reads it.
MacOf(h) == 50 + h
\* A MAC no host of the model has.
ForeignMac == 59

\* Process slots of a host (struct proc *); 0 is the null pointer, which is
\* what myproc() returns when the CPU runs no process.
Procs == {1, 2}
NoProc == 0
\* p->pid of the first process in slot p, and the pids allocproc hands out.
FirstPid(p) == p + 2
Pids == 3 .. 5
\* p->sz: process 1 has two pages of user memory, process 2 has one.
ProcSz(p) == IF p = 1 THEN 2 * PGSIZE ELSE PGSIZE
\* The physical page behind a user page: process 1 owns physical pages 1 and
\* 2, process 2 owns physical page 3; physical page 0 is kernel memory.
PhysPage(p, vpage) == IF p = 1 THEN (1 + vpage) * PGSIZE ELSE 3 * PGSIZE

PGROUNDDOWN(a) == a - (a % PGSIZE)

\* walk(p->pagetable, addr, 0) followed by PTE2PA: the physical page base,
\* or -1 when the page is not mapped.
Walk(p, addr) ==
    IF addr < ProcSz(p) THEN PhysPage(p, PGROUNDDOWN(addr) \div PGSIZE) ELSE -1

\* flags & bit, for a one-bit mask.
HasFlag(flags, bit) == (flags \div bit) % 2 = 1

\* x & y on naturals.
RECURSIVE BitAnd(_, _)
BitAnd(x, y) ==
    IF x = 0 \/ y = 0 THEN 0
    ELSE (x % 2) * (y % 2) + 2 * BitAnd(x \div 2, y \div 2)

\* ------------------------------------------------------------- records ---

ZeroMR ==
    [valid |-> 0, id |-> 0, access_flags |-> 0, vaddr |-> 0, paddr |-> 0,
     length |-> 0, lkey |-> 0, rkey |-> 0, owner |-> NoProc, owner_pid |-> 0,
     refcount |-> 0]

ZeroWR ==
    [wr_id |-> 0, opcode |-> 0, flags |-> 0, local_mr_id |-> 0,
     local_offset |-> 0, remote_mr_id |-> 0, remote_addr |-> 0,
     remote_key |-> 0, length |-> 0]

ZeroCQE == [wr_id |-> 0, byte_len |-> 0, status |-> 0, opcode |-> 0]

ZeroAck == [valid |-> 0, seq_num |-> 0, wr_id |-> 0]

RingIdx == 0 .. (RING_CAP - 1)
CqIdx == 0 .. (CQ_CAP - 1)
AckIdx == 0 .. (NUM_PENDING - 1)
MrIds == 1 .. MAX_MRS
QpIds == 0 .. (MAX_QPS - 1)

\* sq_ptr / cq_ptr: 0 = null, 1 = a live page from kalloc, 2 = dangling (freed).
ZeroQP ==
    [valid |-> 0, id |-> 0, owner |-> NoProc, state |-> QP_STATE_RESET,
     sq_ptr |-> 0, sq |-> [i \in RingIdx |-> ZeroWR],
     sq_head |-> 0, sq_tail |-> 0, sq_size |-> 0,
     cq_ptr |-> 0, cq |-> [i \in CqIdx |-> ZeroCQE],
     cq_head |-> 0, cq_tail |-> 0, cq_size |-> 0,
     outstanding_ops |-> 0,
     remote_mac |-> 0, remote_qp_num |-> 0, connected |-> 0,
     network_mode |-> 0, tx_seq_num |-> 0, rx_expected_seq |-> 0,
     pending_acks |-> [i \in AckIdx |-> ZeroAck],
     stats_sends |-> 0, stats_completions |-> 0, stats_errors |-> 0]

\* ------------------------------------------------------------ variables --

VARIABLES
    mr_table,   \* [host -> [1..MAX_MRS -> struct rdma_mr]]
    mr_lock,    \* [host -> holder of mr_lock: a process slot, "rx", or 0]
    qp_table,   \* [host -> [0..MAX_QPS-1 -> struct rdma_qp]]
    qp_lock,    \* [host -> holder of qp_lock: a process slot, "rx", or 0]
    mem,        \* [host -> [physical address -> byte]]
    pid,        \* [host -> [process slot -> p->pid]]
    pc,         \* [host -> [process slot -> where the process is in post_send]]
    ctx,        \* [host -> [process slot -> locals of its post_send call]]
    wire,       \* [host -> sequence of frames travelling towards that host]
    posts,      \* [host -> number of post_send calls made so far]
    injected,   \* number of frames put on the wire by an outside sender
    txlog,      \* history: the WRITE frames handed to the NIC, and what came back
    last        \* the step just taken: operation, arguments, outcome

vars ==
    <<mr_table, mr_lock, qp_table, qp_lock, mem, pid, pc, ctx, wire, posts,
      injected, txlog, last>>

\* The ring indices and counters of a QP that post_send may move.
QpCounters(qp) ==
    [sq_head |-> qp.sq_head, sq_tail |-> qp.sq_tail,
     outstanding_ops |-> qp.outstanding_ops, cq_tail |-> qp.cq_tail,
     stats_sends |-> qp.stats_sends, stats_errors |-> qp.stats_errors]

\* What a QP slot held when rdma_qp_create picked it (history).
SlotWas(qp) ==
    [connected |-> qp.connected, network_mode |-> qp.network_mode,
     tx_seq_num |-> qp.tx_seq_num, stats_sends |-> qp.stats_sends,
     pending |-> \E i \in AckIdx : qp.pending_acks[i].valid = 1,
     unreaped |-> qp.cq_head # qp.cq_tail]

\* The record of a step (history): the operation, its arguments and what it
\* did.  handed are the frames given to e1000_transmit, sent those the NIC
\* put on the wire, mbuf what mbufalloc() answered.  The steps that finish a
\* post_send call repeat what its executor pass recorded.
NoEvent ==
    [op |-> "init", host |-> 0, proc |-> NoProc, ret |-> 0, mr |-> 0, qp |-> 0,
     wr |-> ZeroWR, status |-> 0, cqes |-> <<>>, writes |-> {}, src |-> <<>>,
     dst |-> 0, handed |-> <<>>, sent |-> <<>>, frame |-> <<>>, out |-> <<>>,
     netmode |-> FALSE, mbuf |-> FALSE, addr |-> 0, len |-> 0,
     sq_size |-> 0, cq_size |-> 0, kalloc |-> FALSE, mac |-> 0, remote_qp |-> 0,
     max_comps |-> 0, old_qp |-> SlotWas(ZeroQP),
     before |-> [refs |-> [m \in MrIds |-> 0], qp |-> QpCounters(ZeroQP),
                 sent |-> 0],
     owed |-> [h \in Hosts |-> [q \in QpIds |-> <<>>]]]

Ev(op, h, p, ret) ==
    [NoEvent EXCEPT !.op = op, !.host = h, !.proc = p, !.ret = ret,
                    !.owed = last.owed]

\* The event with the CQEs its step appended added to what the CQ of its QP
\* owes to poll_cq.
Owe(e) == [e EXCEPT !.owed[e.host][e.qp] = @ \o e.cqes]

\* The event with the n oldest CQEs of the QP handed over, and with nothing
\* owed by a QP that was created or destroyed.
Reaped(e, n) ==
    IF e.qp \notin QpIds THEN e
    ELSE [e EXCEPT !.owed[e.host][e.qp] =
            IF n >= Len(@) THEN <<>> ELSE SubSeq(@, n + 1, Len(@))]
Forgotten(e) == [e EXCEPT !.owed[e.host][e.qp] = <<>>]

NoCtx == [qp |-> 0, wr |-> ZeroWR, mr |-> 0, physical_offset |-> 0]

Init ==
    /\ mr_table = [h \in Hosts |-> [i \in MrIds |-> ZeroMR]]
    /\ mr_lock = [h \in Hosts |-> 0]
    /\ qp_table = [h \in Hosts |-> [q \in QpIds |-> ZeroQP]]
    /\ qp_lock = [h \in Hosts |-> 0]
    /\ mem = [h \in Hosts |-> [a \in 0 .. (M64 - 1) |-> a]]
    /\ pid = [h \in Hosts |-> [p \in Procs |-> FirstPid(p)]]
    /\ pc = [h \in Hosts |-> [p \in Procs |-> "idle"]]
    /\ ctx = [h \in Hosts |-> [p \in Procs |-> NoCtx]]
    /\ wire = [h \in Hosts |-> <<>>]
    /\ posts = [h \in Hosts |-> 0]
    /\ injected = 0
    /\ txlog = <<>>
    /\ last = NoEvent

\* ------------------------------------------------------- MR registry -----

\* rdma_mr_get as called by process slot p (0 when no process runs): the slot
\* index of a valid MR owned by p, or 0 for NULL.
MrGet(h, p, mr_id) ==
    IF mr_id < 1 \/ mr_id > MAX_MRS THEN 0
    ELSE LET mr == mr_table[h][mr_id]
         IN IF mr.valid = 0 \/ mr.owner # p \/ mr.owner_pid # pid[h][p]
            THEN 0 ELSE mr_id

\* The argument checks of rdma_mr_register without the page-boundary check.
RegArgsOk_AnyPage(p, addr, len) ==
    /\ ~(addr = 0 \/ len = 0)
    /\ ~(addr >= ProcSz(p) \/ (addr + len) % M64 > ProcSz(p))

\* The argument checks of rdma_mr_register, in uint64 arithmetic.
RegArgsOk(p, addr, len) ==
    /\ ~(addr = 0 \/ len = 0)
    /\ ~(addr >= ProcSz(p) \/ (addr + len) % M64 > ProcSz(p))
    /\ PGROUNDDOWN(addr) = PGROUNDDOWN((addr + len - 1) % M64)

\* The first free slot of the MR table, or 0.
FreeMrSlot(h) ==
    IF \E i \in MrIds : mr_table[h][i].valid = 0
    THEN CHOOSE i \in MrIds :
            /\ mr_table[h][i].valid = 0
            /\ \A j \in MrIds : j < i => mr_table[h][j].valid # 0
    ELSE 0

rdma_mr_register(h, p, addr, len, flags) ==
    /\ pc[h][p] = "idle"
    /\ mr_lock[h] = 0
    /\ LET slot == FreeMrSlot(h)
           page == Walk(p, addr)
           ok == RegArgsOk(p, addr, len) /\ slot # 0 /\ page # -1
       IN /\ mr_table' =
                IF ok
                THEN [mr_table EXCEPT ![h][slot] =
                        [valid |-> 1, id |-> slot, access_flags |-> flags,
                         vaddr |-> addr,
                         paddr |-> page + (addr % PGSIZE),
                         length |-> len, lkey |-> slot, rkey |-> slot,
                         owner |-> p, owner_pid |-> pid[h][p], refcount |-> 0]]
                ELSE mr_table
          /\ last' = [Ev("mr_register", h, p, IF ok THEN slot ELSE -1)
                        EXCEPT !.mr = IF ok THEN slot ELSE 0,
                               !.addr = addr, !.len = len]
    /\ UNCHANGED <<mr_lock, qp_table, qp_lock, mem, pid, pc, ctx, wire, posts,
                   injected, txlog>>

\* rdma_mr_deregister without its ownership and refcount checks.
DeregOk_Unchecked(h, p, mr_id) ==
    /\ ~(mr_id < 1 \/ mr_id > MAX_MRS)
    /\ mr_table[h][mr_id].valid # 0

\* rdma_mr_deregister without its ownership check.
DeregOk_AnyOwner(h, p, mr_id) ==
    /\ ~(mr_id < 1 \/ mr_id > MAX_MRS)
    /\ mr_table[h][mr_id].valid # 0
    /\ ~(mr_table[h][mr_id].refcount > 0)

\* The checks of rdma_mr_deregister: the id in range, the slot valid, the
\* caller its owner, no operation in flight.
DeregOk(h, p, mr_id) ==
    /\ ~(mr_id < 1 \/ mr_id > MAX_MRS)
    /\ mr_table[h][mr_id].valid # 0
    /\ ~(mr_table[h][mr_id].owner # p \/ mr_table[h][mr_id].owner_pid # pid[h][p])
    /\ ~(mr_table[h][mr_id].refcount > 0)

rdma_mr_deregister(h, p, mr_id) ==
    /\ pc[h][p] = "idle"
    /\ mr_lock[h] = 0
    /\ LET ok == DeregOk(h, p, mr_id)
       IN /\ mr_table' =
                IF ok
                THEN [mr_table EXCEPT ![h][mr_id] =
                        [@ EXCEPT !.valid = 0, !.id = 0, !.owner = NoProc,
                                  !.owner_pid = 0]]
                ELSE mr_table
          /\ last' = [Ev("mr_deregister", h, p, IF ok THEN 0 ELSE -1)
                        EXCEPT !.mr = mr_id]
    /\ UNCHANGED <<mr_lock, qp_table, qp_lock, mem, pid, pc, ctx, wire, posts,
                   injected, txlog>>

\* The range check sys_rdma_dereg_mr makes before it calls the kernel.
SysDeregArgOk(mr_id) == ~(mr_id < 0 \/ mr_id >= MAX_MRS)

\* The rdma_dereg_mr system call: the range check, then rdma_mr_deregister.
sys_rdma_dereg_mr(h, p, mr_id) ==
    IF SysDeregArgOk(mr_id)
    THEN rdma_mr_deregister(h, p, mr_id)
    ELSE /\ pc[h][p] = "idle"
         /\ last' = [Ev("sys_dereg_mr", h, p, -1) EXCEPT !.mr = mr_id]
         /\ UNCHANGED <<mr_table, mr_lock, qp_table, qp_lock, mem, pid, pc, ctx,
                        wire, posts, injected, txlog>>

\* rdma_mr_deregister in two steps, so that other CPUs run while the caller
\* is inside the critical section of mr_lock.  First step: the range check
\* passed, acquire(&mr_lock).
MrDeregAcquire(h, p, mr_id) ==
    /\ pc[h][p] = "idle"
    /\ mr_lock[h] = 0
    /\ ~(mr_id < 1 \/ mr_id > MAX_MRS)
    /\ mr_lock' = [mr_lock EXCEPT ![h] = p]
    /\ pc' = [pc EXCEPT ![h][p] = "dereg"]
    /\ ctx' = [ctx EXCEPT ![h][p] = [NoCtx EXCEPT !.mr = mr_id]]
    /\ last' = [Ev("mr_lock", h, p, 0) EXCEPT !.mr = mr_id]
    /\ UNCHANGED <<mr_table, qp_table, qp_lock, mem, pid, wire, posts, injected,
                   txlog>>

\* A return from rdma_mr_deregister that leaves mr_lock held.
MrDeregLocked_KeepLock(h, p) ==
    /\ pc[h][p] = "dereg"
    /\ mr_lock[h] = p
    /\ LET mr_id == ctx[h][p].mr
           ok == DeregOk(h, p, mr_id)
       IN /\ mr_table' =
                IF ok
                THEN [mr_table EXCEPT ![h][mr_id] =
                        [@ EXCEPT !.valid = 0, !.id = 0, !.owner = NoProc,
                                  !.owner_pid = 0]]
                ELSE mr_table
          /\ last' = [Ev("mr_deregister", h, p, IF ok THEN 0 ELSE -1)
                        EXCEPT !.mr = mr_id]
    /\ pc' = [pc EXCEPT ![h][p] = "idle"]
    /\ ctx' = [ctx EXCEPT ![h][p] = NoCtx]
    /\ UNCHANGED <<mr_lock, qp_table, qp_lock, mem, pid, wire, posts, injected,
                   txlog>>

\* Second step: the checks and the clearing of the slot under mr_lock, then
\* release(&mr_lock) and the return.
MrDeregLocked(h, p) ==
    /\ pc[h][p] = "dereg"
    /\ mr_lock[h] = p
    /\ LET mr_id == ctx[h][p].mr
           ok == DeregOk(h, p, mr_id)
       IN /\ mr_table' =
                IF ok
                THEN [mr_table EXCEPT ![h][mr_id] =
                        [@ EXCEPT !.valid = 0, !.id = 0, !.owner = NoProc,
                                  !.owner_pid = 0]]
                ELSE mr_table
          /\ last' = [Ev("mr_deregister", h, p, IF ok THEN 0 ELSE -1)
                        EXCEPT !.mr = mr_id]
    /\ mr_lock' = [mr_lock EXCEPT ![h] = 0]
    /\ pc' = [pc EXCEPT ![h][p] = "idle"]
    /\ ctx' = [ctx EXCEPT ![h][p] = NoCtx]
    /\ UNCHANGED <<qp_table, qp_lock, mem, pid, wire, posts, injected, txlog>>

\* The process in slot p exits and a new process is given the slot (the same
\* struct proc) under another pid, one no live process has.  The RDMA tables
\* are left as they are: there is no teardown hook.
ProcExit(h, p) ==
    /\ pc[h][p] = "idle"
    /\ \E n \in Pids :
            /\ \A o \in Procs : pid[h][o] # n
            /\ pid' = [pid EXCEPT ![h][p] = n]
            /\ last' = Ev("exit", h, p, n)
    /\ UNCHANGED <<mr_table, mr_lock, qp_table, qp_lock, mem, pc, ctx, wire,
                   posts, injected, txlog>>

\* ------------------------------------------------------- QP lifecycle ----

\* kfree() fills the freed page with junk (memset(pa, 1, PGSIZE)).
JunkWR ==
    [wr_id |-> 1, opcode |-> 1, flags |-> 1, local_mr_id |-> 1,
     local_offset |-> 1, remote_mr_id |-> 1, remote_addr |-> 1,
     remote_key |-> 1, length |-> 1]

JunkCQE == [wr_id |-> 1, byte_len |-> 1, status |-> 1, opcode |-> 1]

\* The size checks of rdma_qp_create without the power-of-two check.
QpSizeOk_AnySize(size, cap) == ~(size > cap)

\* The size checks of rdma_qp_create: a power of two, at most one page.
QpSizeOk(size, cap) ==
    /\ ~(size = 0 \/ BitAnd(size, (size - 1) % M32) # 0)
    /\ ~(size > cap)

\* The first free slot of the QP table, or -1.
FreeQpSlot(h) ==
    IF \E q \in QpIds : qp_table[h][q].valid = 0
    THEN CHOOSE q \in QpIds :
            /\ qp_table[h][q].valid = 0
            /\ \A r \in QpIds : r < q => qp_table[h][r].valid # 0
    ELSE -1

\* What a call of rdma_qp_create was given and answered.
CreateEv(h, p, ret, sq_size, cq_size, got) ==
    [Ev("qp_create", h, p, ret) EXCEPT !.sq_size = sq_size,
                                       !.cq_size = cq_size, !.kalloc = got]

\* The metadata rdma_qp_create fills in without the network fields.
FreshQp_KeepNet(qp, old, q, p, cq_size) ==
    [qp EXCEPT !.cq_ptr = 1, !.cq = [i \in CqIdx |-> ZeroCQE],
               !.cq_size = cq_size, !.cq_head = 0, !.cq_tail = 0,
               !.id = q, !.owner = p, !.valid = 1,
               !.state = QP_STATE_INIT, !.outstanding_ops = 0,
               !.connected = 0, !.stats_sends = 0,
               !.stats_completions = 0, !.stats_errors = 0]

\* The slot after the CQ page is allocated and the metadata filled in; qp is
\* the slot with its new SQ, old the slot as it was found.
FreshQp(qp, old, q, p, cq_size) ==
    [qp EXCEPT !.cq_ptr = 1, !.cq = [i \in CqIdx |-> ZeroCQE],
               !.cq_size = cq_size, !.cq_head = 0, !.cq_tail = 0,
               !.id = q, !.owner = p, !.valid = 1,
               !.state = QP_STATE_INIT, !.outstanding_ops = 0,
               !.connected = 0, !.stats_sends = 0,
               !.stats_completions = 0, !.stats_errors = 0,
               !.network_mode = 0, !.tx_seq_num = 0,
               !.rx_expected_seq = 0,
               !.pending_acks =
                   [i \in AckIdx |-> [old.pending_acks[i]
                                        EXCEPT !.valid = 0]]]

\* sq_got / cq_got: whether kalloc() returns a page for the SQ, for the CQ.
rdma_qp_create(h, p, sq_size, cq_size, sq_got, cq_got) ==
    /\ pc[h][p] = "idle"
    /\ qp_lock[h] = 0
    /\ LET q == FreeQpSlot(h)
           sizes == QpSizeOk(sq_size, RING_CAP) /\ QpSizeOk(cq_size, CQ_CAP)
           old == qp_table[h][q]
           withSq == [old EXCEPT !.sq_ptr = 1,
                                 !.sq = [i \in RingIdx |-> ZeroWR],
                                 !.sq_size = sq_size, !.sq_head = 0,
                                 !.sq_tail = 0]
       IN IF ~sizes \/ q = -1
          THEN /\ qp_table' = qp_table
               /\ last' = CreateEv(h, p, -1, sq_size, cq_size, sq_got /\ cq_got)
          ELSE IF ~sq_got
          THEN /\ qp_table' = [qp_table EXCEPT ![h][q].sq_ptr = 0]
               /\ last' = CreateEv(h, p, -1, sq_size, cq_size, FALSE)
          ELSE IF ~cq_got
          THEN /\ qp_table' = [qp_table EXCEPT ![h][q] =
                    [withSq EXCEPT !.cq_ptr = 0, !.sq_ptr = 2,
                                   !.sq = [i \in RingIdx |-> JunkWR]]]
               /\ last' = CreateEv(h, p, -1, sq_size, cq_size, FALSE)
          ELSE /\ qp_table' = [qp_table EXCEPT ![h][q] =
                                  FreshQp(withSq, old, q, p, cq_size)]
               /\ last' = Forgotten([CreateEv(h, p, q, sq_size, cq_size, TRUE)
                                        EXCEPT !.qp = q, !.old_qp = SlotWas(old)])
    /\ UNCHANGED <<mr_table, mr_lock, qp_lock, mem, pid, pc, ctx, wire, posts,
                   injected, txlog>>

\* A destroy that frees the ring pages and leaves the slot marked in use.
Destroyed_StillValid(qp) ==
    [qp EXCEPT !.sq_ptr = IF qp.sq_ptr # 0 THEN 2 ELSE 0,
               !.sq = IF qp.sq_ptr # 0
                      THEN [i \in RingIdx |-> JunkWR] ELSE @,
               !.cq_ptr = IF qp.cq_ptr # 0 THEN 2 ELSE 0,
               !.cq = IF qp.cq_ptr # 0
                      THEN [i \in CqIdx |-> JunkCQE] ELSE @]

\* The slot after rdma_qp_destroy: both pages freed (what they held is
\* gone), valid, id and state reset, every other field as it was.
Destroyed(qp) ==
    [qp EXCEPT !.sq_ptr = IF qp.sq_ptr # 0 THEN 2 ELSE 0,
               !.sq = IF qp.sq_ptr # 0
                      THEN [i \in RingIdx |-> JunkWR] ELSE @,
               !.cq_ptr = IF qp.cq_ptr # 0 THEN 2 ELSE 0,
               !.cq = IF qp.cq_ptr # 0
                      THEN [i \in CqIdx |-> JunkCQE] ELSE @,
               !.valid = 0, !.id = 0, !.state = QP_STATE_RESET]

rdma_qp_destroy(h, p, qp_id) ==
    /\ pc[h][p] = "idle"
    /\ qp_lock[h] = 0
    /\ LET inrange == ~(qp_id < 0 \/ qp_id >= MAX_QPS)
           qp == qp_table[h][qp_id]
           ok == inrange /\ ~(qp.valid = 0 \/ qp.owner # p)
       IN /\ qp_table' =
                IF ok
                THEN [qp_table EXCEPT ![h][qp_id] = Destroyed(qp)]
                ELSE qp_table
          /\ last' = IF ok
                     THEN Forgotten([Ev("qp_destroy", h, p, 0) EXCEPT !.qp = qp_id])
                     ELSE [Ev("qp_destroy", h, p, -1) EXCEPT !.qp = qp_id]
    /\ UNCHANGED <<mr_table, mr_lock, qp_lock, mem, pid, pc, ctx, wire, posts,
                   injected, txlog>>

\* The checks of rdma_qp_connect without the state check.
ConnectOk_AnyState(h, p, qp_id) ==
    /\ ~(qp_id < 0 \/ qp_id >= MAX_QPS)
    /\ ~(qp_table[h][qp_id].valid = 0 \/ qp_table[h][qp_id].owner # p)

\* The checks of rdma_qp_connect: the id in range, the QP valid and owned by
\* the caller, its state INIT.
ConnectOk(h, p, qp_id) ==
    /\ ~(qp_id < 0 \/ qp_id >= MAX_QPS)
    /\ ~(qp_table[h][qp_id].valid = 0 \/ qp_table[h][qp_id].owner # p)
    /\ ~(qp_table[h][qp_id].state # QP_STATE_INIT)

\* A connect that stops at RTR and leaves the step to RTS to the data path.
rdma_qp_connect_ToRtr(h, p, qp_id, mac, remote_qp) ==
    /\ pc[h][p] = "idle"
    /\ qp_lock[h] = 0
    /\ LET qp == qp_table[h][qp_id]
           ok == ConnectOk(h, p, qp_id)
       IN /\ qp_table' =
                IF ok
                THEN [qp_table EXCEPT ![h][qp_id] =
                        [@ EXCEPT !.remote_mac = mac,
                                  !.remote_qp_num = remote_qp,
                                  !.network_mode = 1, !.connected = 1,
                                  !.tx_seq_num = 1, !.rx_expected_seq = 1,
                                  !.state = QP_STATE_RTR]]
                ELSE qp_table
          /\ last' = [Ev("qp_connect", h, p, IF ok THEN 0 ELSE -1)
                        EXCEPT !.qp = qp_id, !.mac = mac,
                               !.remote_qp = remote_qp]
    /\ UNCHANGED <<mr_table, mr_lock, qp_lock, mem, pid, pc, ctx, wire, posts,
                   injected, txlog>>

rdma_qp_connect(h, p, qp_id, mac, remote_qp) ==
    /\ pc[h][p] = "idle"
    /\ qp_lock[h] = 0
    /\ LET qp == qp_table[h][qp_id]
           ok == ConnectOk(h, p, qp_id)
       IN /\ qp_table' =
                IF ok
                THEN [qp_table EXCEPT ![h][qp_id] =
                        [@ EXCEPT !.remote_mac = mac,
                                  !.remote_qp_num = remote_qp,
                                  !.network_mode = 1, !.connected = 1,
                                  !.tx_seq_num = 1, !.rx_expected_seq = 1,
                                  !.state = QP_STATE_RTS]]
                ELSE qp_table
          /\ last' = [Ev("qp_connect", h, p, IF ok THEN 0 ELSE -1)
                        EXCEPT !.qp = qp_id, !.mac = mac,
                               !.remote_qp = remote_qp]
    /\ UNCHANGED <<mr_table, mr_lock, qp_lock, mem, pid, pc, ctx, wire, posts,
                   injected, txlog>>

\* The CQEs between cq_head and cq_tail, oldest first: what the loop of
\* rdma_qp_poll_cq walks over.
RECURSIVE CqPending(_, _)
CqPending(qp, head) ==
    IF head = qp.cq_tail THEN <<>>
    ELSE <<qp.cq[head]>> \o CqPending(qp, (head + 1) % qp.cq_size)

Min(a, b) == IF a < b THEN a ELSE b

\* How many CQEs one call copies: the loop of rdma_qp_poll_cq stops at the
\* tail or at max_comps, whichever comes first.
PollCount_All(avail, max_comps) == Len(avail)

PollCount(avail, max_comps) == Min(Len(avail), max_comps)

CountStatus(s, ok) ==
    Cardinality({i \in 1 .. Len(s) : (s[i].status = RDMA_WC_SUCCESS) = ok})

rdma_qp_poll_cq(h, p, qp_id, max_comps) ==
    /\ pc[h][p] = "idle"
    /\ qp_lock[h] = 0
    /\ LET inrange == ~(qp_id < 0 \/ qp_id >= MAX_QPS \/ max_comps <= 0)
           qp == qp_table[h][qp_id]
           ok == inrange /\ ~(qp.valid = 0 \/ qp.owner # p)
           avail == CqPending(qp, qp.cq_head)
           n == PollCount(avail, max_comps)
           got == SubSeq(avail, 1, n)
       IN /\ qp_table' =
                IF ok
                THEN [qp_table EXCEPT ![h][qp_id] =
                        [@ EXCEPT
                           !.cq_head = (qp.cq_head + n) % qp.cq_size,
                           !.stats_completions =
                               (@ + CountStatus(got, TRUE)) % M32,
                           !.stats_errors =
                               (@ + CountStatus(got, FALSE)) % M32]]
                ELSE qp_table
          /\ last' = Reaped([Ev("qp_poll_cq", h, p, IF ok THEN n ELSE -1)
                                EXCEPT !.qp = qp_id, !.max_comps = max_comps,
                                       !.out = IF ok THEN got ELSE <<>>],
                             IF ok THEN n ELSE 0)
    /\ UNCHANGED <<mr_table, mr_lock, qp_lock, mem, pid, pc, ctx, wire, posts,
                   injected, txlog>>

\* ------------------------------------------------------- wire format -----

\* A w-bit value on the wire, most significant bit first: what htons/htonl
\* leave in the header (the value is cut to w bits by the field's type).
RECURSIVE Hton(_, _)
Hton(x, w) == IF w = 0 THEN <<>> ELSE Append(Hton(x \div 2, w - 1), x % 2)

RECURSIVE Ntoh(_)
Ntoh(s) == IF s = <<>> THEN 0 ELSE 2 * Ntoh(SubSeq(s, 1, Len(s) - 1)) + s[Len(s)]

htons(x) == Hton(x % M16, W16)
ntohs(s) == Ntoh(s)
htonl(x) == Hton(x % M32, W32)
ntohl(s) == Ntoh(s)
\* htonll/ntohll of kernel/rdma_net.h: the two 32-bit halves, each swapped,
\* change places.
htonll(x) == htonl((x % M64) \div M32) \o htonl((x % M64) % M32)
ntohll(s) == (ntohl(SubSeq(s, 1, W32)) * M32 + ntohl(SubSeq(s, W32 + 1, 2 * W32))) % M64

\* Payload bytes an mbuf can take after the headers.
MBUF_PAYLOAD == PGSIZE \div 2

\* The n bytes of physical memory of host h from address a on.
ReadMem(h, a, n) == [i \in 1 .. n |-> mem[h][(a + i - 1) % M64]]

\* memmove(dst, bytes, n): the memory of host h with the bytes written.
WriteMem(h, dst, bytes) ==
    [a \in 0 .. (M64 - 1) |->
        IF \E i \in 1 .. Len(bytes) : (dst + i - 1) % M64 = a
        THEN bytes[CHOOSE i \in 1 .. Len(bytes) : (dst + i - 1) % M64 = a]
        ELSE mem[h][a]]

\* The addresses memmove(dst, _, n) writes.
Span(dst, n) == {(dst + i) % M64 : i \in 0 .. (n - 1)}

\* ---------------------------------------------------------- completions --

\* qp->cq[qp->cq_tail] = comp; qp->cq_tail = (qp->cq_tail + 1) % qp->cq_size
PostCqe(qp, comp) ==
    [qp EXCEPT !.cq = [@ EXCEPT ![qp.cq_tail] = comp],
               !.cq_tail = (qp.cq_tail + 1) % qp.cq_size]

Cqe(wr_id, byte_len, status, opcode) ==
    [wr_id |-> wr_id, byte_len |-> byte_len, status |-> status, opcode |-> opcode]

\* ------------------------------------------------------ network transmit --

\* The first free pending-ACK slot, or -1.
FreeAckSlot(qp) ==
    IF \E i \in AckIdx : qp.pending_acks[i].valid = 0
    THEN CHOOSE i \in AckIdx :
            /\ qp.pending_acks[i].valid = 0
            /\ \A j \in AckIdx : j < i => qp.pending_acks[j].valid # 0
    ELSE -1

\* The WRITE frame rdma_net_tx_write builds on host h for wr on qp.
WriteFrame(h, qp, wr) ==
    [dhost |-> qp.remote_mac, shost |-> MacOf(h), hdr |-> TRUE,
     opcode |-> RDMA_NET_OP_WRITE,
     flags |-> IF HasFlag(wr.flags, RDMA_WR_SIGNALED)
               THEN RDMA_PKT_FLAG_SIGNALED ELSE 0,
     src_qp |-> htons(qp.id), dst_qp |-> htons(qp.remote_qp_num),
     seq_num |-> htonl(qp.tx_seq_num),
     local_mr_id |-> htonl(wr.local_mr_id),
     remote_mr_id |-> htonl(wr.remote_mr_id),
     remote_addr |-> htonll(wr.remote_addr),
     length |-> htonl(wr.length), remote_key |-> htonl(wr.remote_key),
     payload |-> ReadMem(h, wr.local_offset, wr.length)]

\* Whether a WR is recorded in pending_acks at transmit time.
TracksAck(wr) == HasFlag(wr.flags, RDMA_WR_SIGNALED)

\* The QP after rdma_net_tx_write got past the payload copy: the pending ACK
\* recorded, the sequence number advanced.
TxRecord(qp, wr) ==
    LET i == FreeAckSlot(qp)
        tracked ==
            IF TracksAck(wr) /\ i # -1
            THEN [qp EXCEPT !.pending_acks[i] =
                    [seq_num |-> qp.tx_seq_num, wr_id |-> wr.wr_id, valid |-> 1]]
            ELSE qp
    IN [tracked EXCEPT
          !.tx_seq_num = (qp.tx_seq_num + 1) % M32,
          !.state = IF qp.state = QP_STATE_RTR THEN QP_STATE_RTS ELSE @]

\* The ACK frame rdma_net_tx_ack builds on host h.
AckFrame(h, qp, remote_qp, seq_num, dst_mac) ==
    [dhost |-> dst_mac, shost |-> MacOf(h), hdr |-> TRUE,
     opcode |-> RDMA_NET_OP_ACK, flags |-> 0,
     src_qp |-> htons(qp.id), dst_qp |-> htons(remote_qp),
     seq_num |-> htonl(seq_num),
     local_mr_id |-> htonl(0), remote_mr_id |-> htonl(0),
     remote_addr |-> htonll(0), length |-> htonl(0), remote_key |-> htonl(0),
     payload |-> <<>>]

\* ------------------------------------------------------------ post_send --

\* The local bounds check of rdma_qp_post_send, in uint64 arithmetic.
LocalBoundsOk(mr, wr) == ~((wr.local_offset + wr.length) % M64 > mr.length)

\* rdma_qp_post_send up to release(&mr_lock): the argument check, the lookup
\* of the local MR, the bounds check, refcount++ and the physical address.
\* The state a post_send call starts from (history): every MR refcount of the
\* host, the counters of the QP it names, the frames sent so far.  The later
\* steps of the call hand it on, so it is the call's own as long as no other
\* step comes between them.
PostBefore(h, qp_id) ==
    [refs |-> [m \in MrIds |-> mr_table[h][m].refcount],
     qp |-> IF qp_id \in QpIds THEN QpCounters(qp_table[h][qp_id])
            ELSE QpCounters(ZeroQP),
     sent |-> Len(wire[Peer(h)])]

PostSendMr(h, p, qp_id, wr) ==
    /\ pc[h][p] = "idle"
    /\ mr_lock[h] = 0
    /\ posts' = [posts EXCEPT ![h] = @ + 1]
    /\ LET inrange == ~(qp_id < 0 \/ qp_id >= MAX_QPS)
           m == MrGet(h, p, wr.local_mr_id)
           mr == mr_table[h][m]
           ok == inrange /\ m # 0 /\ LocalBoundsOk(mr, wr)
       IN IF ok
          THEN /\ mr_table' = [mr_table EXCEPT ![h][m].refcount = @ + 1]
               /\ ctx' = [ctx EXCEPT ![h][p] =
                    [qp |-> qp_id, wr |-> wr, mr |-> m,
                     physical_offset |-> (mr.paddr + wr.local_offset) % M64]]
               /\ pc' = [pc EXCEPT ![h][p] = "ps_qp"]
               /\ last' = [Ev("post_mr", h, p, 0)
                             EXCEPT !.qp = qp_id, !.wr = wr, !.mr = m,
                                    !.before = PostBefore(h, qp_id)]
          ELSE /\ UNCHANGED <<mr_table, ctx, pc>>
               /\ last' = [Ev("post_send", h, p, -1)
                             EXCEPT !.qp = qp_id, !.wr = wr,
                                    !.before = PostBefore(h, qp_id)]
    /\ UNCHANGED <<mr_lock, qp_table, qp_lock, mem, pid, wire, injected, txlog>>

\* Whether post_send may enqueue on the QP: owned, in a posting state, not full.
QpStateOk(qp) ==
    ~(qp.state # QP_STATE_INIT /\ qp.state # QP_STATE_RTR /\ qp.state # QP_STATE_RTS)

\* A post_send that never finds the send queue full.
SqFull_Never(qp) == FALSE

SqFull(qp) == (qp.sq_tail + 1) % qp.sq_size = qp.sq_head

\* A refusal that counts an error whatever its reason.
Rejected_CountAll(qp, full) == [qp EXCEPT !.stats_errors = (@ + 1) % M32]

\* The QP after post_send refused the work request: stats_errors counts the
\* refusals for a full send queue, and only those.
Rejected(qp, full) ==
    IF full THEN [qp EXCEPT !.stats_errors = (@ + 1) % M32] ELSE qp

\* rdma_qp_post_send from acquire(&qp_lock) to the call of the executor: the
\* ownership, state and SQ-full checks, then the enqueue.  On success the
\* process keeps qp_lock; on an error it has released it and still owes the
\* refcount decrement.
PostSendQp(h, p) ==
    /\ pc[h][p] = "ps_qp"
    /\ qp_lock[h] = 0
    /\ LET c == ctx[h][p]
           qp == qp_table[h][c.qp]
           owned == ~(qp.valid = 0 \/ qp.owner # p)
           full == owned /\ QpStateOk(qp) /\ SqFull(qp)
           ok == owned /\ QpStateOk(qp) /\ ~SqFull(qp)
           kernel_wr == [c.wr EXCEPT !.local_offset = c.physical_offset]
       IN IF ok
          THEN /\ qp_table' = [qp_table EXCEPT ![h][c.qp] =
                    [@ EXCEPT !.sq = [@ EXCEPT ![qp.sq_tail] = kernel_wr],
                              !.sq_tail = (qp.sq_tail + 1) % qp.sq_size,
                              !.outstanding_ops = (@ + 1) % M32,
                              !.stats_sends = (@ + 1) % M32]]
               /\ qp_lock' = [qp_lock EXCEPT ![h] = p]
               /\ pc' = [pc EXCEPT ![h][p] = "ps_exec"]
               /\ last' = [Ev("post_enq", h, p, 0)
                             EXCEPT !.qp = c.qp, !.wr = c.wr, !.mr = c.mr]
          ELSE /\ qp_table' = [qp_table EXCEPT ![h][c.qp] = Rejected(qp, full)]
               /\ qp_lock' = qp_lock
               /\ pc' = [pc EXCEPT ![h][p] = "ps_undo"]
               /\ last' = [Ev("post_rej", h, p, 0)
                             EXCEPT !.qp = c.qp, !.wr = c.wr, !.mr = c.mr,
                                    !.before = last.before]
    /\ UNCHANGED <<mr_table, mr_lock, mem, pid, ctx, wire, posts, injected, txlog>>

\* A release that forgets the decrement.
RefRelease_Kept(mr) == mr

\* next_wr without the decrement of outstanding_ops.
next_wr_HeadOnly(qp) == [qp EXCEPT !.sq_head = (qp.sq_head + 1) % qp.sq_size]

\* The label next_wr of the executor: the head moves on and the work request
\* is no longer outstanding.
next_wr(qp) ==
    [qp EXCEPT !.sq_head = (qp.sq_head + 1) % qp.sq_size,
               !.outstanding_ops = (@ - 1) % M32]

\* src_mr->refcount-- of the executor, mr->refcount-- of post_send's error
\* returns.
RefRelease(mr) == [mr EXCEPT !.refcount = @ - 1]

\* The error returns of rdma_qp_post_send after the QP checks: the refcount
\* increment is undone under mr_lock and -1 is returned.
PostSendUndo(h, p) ==
    /\ pc[h][p] = "ps_undo"
    /\ mr_lock[h] = 0
    /\ mr_table' = [mr_table EXCEPT ![h][ctx[h][p].mr] = RefRelease(@)]
    /\ pc' = [pc EXCEPT ![h][p] = "idle"]
    /\ ctx' = [ctx EXCEPT ![h][p] = NoCtx]
    /\ last' = [Ev("post_send", h, p, -1)
                  EXCEPT !.qp = ctx[h][p].qp, !.wr = ctx[h][p].wr,
                         !.mr = ctx[h][p].mr, !.before = last.before]
    /\ UNCHANGED <<mr_lock, qp_table, qp_lock, mem, pid, wire, posts, injected, txlog>>

\* ------------------------------------------------------------- executor --

\* The destination offset the executor and rdma_net_rx resolve remote_addr
\* to: an absolute address inside the MR, else an offset, else -1.
DstOffset(mr, remote_addr) ==
    IF remote_addr >= mr.vaddr /\ remote_addr < (mr.vaddr + mr.length) % M64
    THEN remote_addr - mr.vaddr
    ELSE IF remote_addr < mr.length THEN remote_addr
    ELSE -1

\* The destination bounds check, in uint64 arithmetic.
DstBoundsOk(mr, offset, length) == ~((offset + length) % M64 > mr.length)

\* Whether the MR grants remote write.
RemoteWritable(mr) == HasFlag(mr.access_flags, RDMA_ACCESS_REMOTE_WRITE)

\* The status the loopback branch of rdma_process_work_requests gives a WR.
LoopbackStatus(h, p, wr) ==
    IF wr.opcode = RDMA_OP_WRITE
    THEN LET d == MrGet(h, p, wr.remote_mr_id)
             dst_mr == mr_table[h][d]
             offset == DstOffset(dst_mr, wr.remote_addr)
         IN IF d = 0 THEN RDMA_WC_REM_ACCESS_ERR
            ELSE IF ~RemoteWritable(dst_mr) THEN RDMA_WC_REM_ACCESS_ERR
            ELSE IF offset = -1 THEN RDMA_WC_REM_INV_REQ
            ELSE IF ~DstBoundsOk(dst_mr, offset, wr.length) THEN RDMA_WC_REM_INV_REQ
            ELSE RDMA_WC_SUCCESS
    ELSE RDMA_WC_LOC_PROT_ERR

\* A completion only for signaled WRs, errors included.
PostsCqe_SignaledOnly(wr, status) == HasFlag(wr.flags, RDMA_WR_SIGNALED)

\* Whether the loopback branch posts a completion for the WR.
PostsCqe(wr, status) ==
    HasFlag(wr.flags, RDMA_WR_SIGNALED) \/ status # RDMA_WC_SUCCESS

\* The byte_len of a loopback completion.
CqeByteLen(wr, status) == IF status = RDMA_WC_SUCCESS THEN wr.length ELSE 0

\* dst_mr->hw.paddr + offset of a loopback WRITE that passed its checks.
LoopbackDst(h, p, wr) ==
    LET dst_mr == mr_table[h][MrGet(h, p, wr.remote_mr_id)]
    IN (dst_mr.paddr + DstOffset(dst_mr, wr.remote_addr)) % M64

\* Whether the executor takes the network branch for the QP.
NetworkBranch(qp) == qp.network_mode # 0 /\ qp.state = QP_STATE_RTS

\* The history entry of a WRITE frame rdma_net_tx_write handed to the NIC.
TxEntry(h, qp, wr, link_ok) ==
    [host |-> h, qp |-> qp.id, seq_num |-> qp.tx_seq_num, wr_id |-> wr.wr_id,
     signaled |-> HasFlag(wr.flags, RDMA_WR_SIGNALED),
     tracked |-> TracksAck(wr) /\ FreeAckSlot(qp) # -1,
     onlink |-> link_ok, acks |-> 0, cqes |-> 0, dropped |-> FALSE]

\* One pass of the loop of rdma_process_work_requests up to the refcount
\* decrement: the WR at sq_head is looked up and dispatched.  mbuf_got and
\* link_ok are what mbufalloc() and e1000_transmit() answer in the network
\* branch.
ExecDispatch(h, p, mbuf_got, link_ok) ==
    /\ pc[h][p] = "ps_exec"
    /\ LET q == ctx[h][p].qp
           qp == qp_table[h][q]
           wr == qp.sq[qp.sq_head]
           src == MrGet(h, p, wr.local_mr_id)
           ev == [Ev("exec", h, p, 0) EXCEPT !.qp = q, !.wr = wr, !.mr = src,
                                             !.netmode = NetworkBranch(qp)]
       IN /\ qp.sq_head # qp.sq_tail
          /\ IF src = 0
             THEN \* no source MR: error completion, then straight to next_wr
                  LET comp == Cqe(wr.wr_id, 0, RDMA_WC_LOC_PROT_ERR, wr.opcode)
                      posted == PostCqe(qp, comp)
                  IN /\ qp_table' = [qp_table EXCEPT ![h][q] =
                            next_wr([posted EXCEPT
                                       !.stats_errors = (@ + 1) % M32])]
                     /\ last' = Owe([ev EXCEPT !.status = RDMA_WC_LOC_PROT_ERR,
                                               !.cqes = <<comp>>])
                     /\ UNCHANGED <<mem, wire, pc, txlog>>
             ELSE IF NetworkBranch(qp)
             THEN IF wr.opcode = RDMA_OP_WRITE
                  THEN IF ~mbuf_got \/ wr.length > MBUF_PAYLOAD
                       THEN \* rdma_net_tx_write returned -1
                            LET comp == Cqe(wr.wr_id, 0, RDMA_WC_LOC_PROT_ERR,
                                            wr.opcode)
                            IN /\ qp_table' = [qp_table EXCEPT ![h][q] =
                                     [PostCqe(qp, comp) EXCEPT
                                         !.stats_errors = (@ + 1) % M32]]
                               /\ last' = Owe([ev EXCEPT
                                             !.status = RDMA_WC_LOC_PROT_ERR,
                                             !.cqes = <<comp>>,
                                             !.mbuf = mbuf_got])
                               /\ UNCHANGED <<mem, wire, txlog>>
                       ELSE LET f == WriteFrame(h, qp, wr)
                            IN /\ qp_table' = [qp_table EXCEPT ![h][q] =
                                     TxRecord(qp, wr)]
                               /\ wire' = IF link_ok
                                          THEN [wire EXCEPT ![Peer(h)] =
                                                   Append(@, f)]
                                          ELSE wire
                               /\ txlog' = Append(txlog,
                                                  TxEntry(h, qp, wr, link_ok))
                               /\ last' = [ev EXCEPT
                                             !.src = f.payload,
                                             !.handed = <<f>>,
                                             !.sent = IF link_ok THEN <<f>>
                                                      ELSE <<>>,
                                             !.frame = f, !.mbuf = TRUE]
                               /\ UNCHANGED mem
                  ELSE \* unsupported opcode in network mode: nothing is done
                       /\ last' = [ev EXCEPT !.status = -1]
                       /\ UNCHANGED <<qp_table, mem, wire, txlog>>
             ELSE LET status == LoopbackStatus(h, p, wr)
                      copied == status = RDMA_WC_SUCCESS
                                /\ wr.opcode = RDMA_OP_WRITE
                      bytes == ReadMem(h, wr.local_offset, wr.length)
                      dst == LoopbackDst(h, p, wr)
                      comp == Cqe(wr.wr_id, CqeByteLen(wr, status), status,
                                  wr.opcode)
                      posted == IF PostsCqe(wr, status)
                                THEN PostCqe(qp, comp) ELSE qp
                  IN /\ mem' = IF copied
                               THEN [mem EXCEPT ![h] = WriteMem(h, dst, bytes)]
                               ELSE mem
                     /\ qp_table' = [qp_table EXCEPT ![h][q] =
                            IF ~PostsCqe(wr, status) THEN qp
                            ELSE IF status = RDMA_WC_SUCCESS
                            THEN [posted EXCEPT
                                    !.stats_completions = (@ + 1) % M32]
                            ELSE [posted EXCEPT
                                    !.stats_errors = (@ + 1) % M32]]
                     /\ last' = Owe([ev EXCEPT
                            !.status = status,
                            !.cqes = IF PostsCqe(wr, status) THEN <<comp>>
                                     ELSE <<>>,
                            !.src = IF copied THEN bytes ELSE <<>>,
                            !.dst = IF copied THEN dst ELSE 0,
                            !.writes = IF copied THEN Span(dst, wr.length)
                                       ELSE {}])
                     /\ UNCHANGED <<wire, txlog>>
          /\ IF src = 0 THEN TRUE
             ELSE pc' = [pc EXCEPT ![h][p] = "ps_fin"]
    /\ UNCHANGED <<mr_table, mr_lock, qp_lock, pid, ctx, posts, injected>>

\* The event of a step that finishes a post_send call: what the executor
\* pass of the call recorded, under the step's own name.
Carry(op, ret) == [last EXCEPT !.op = op, !.ret = ret]

\* The rest of the pass: refcount-- under mr_lock, then next_wr.
ExecFinish(h, p) ==
    /\ pc[h][p] = "ps_fin"
    /\ mr_lock[h] = 0
    /\ LET q == ctx[h][p].qp
           qp == qp_table[h][q]
           src == MrGet(h, p, qp.sq[qp.sq_head].local_mr_id)
       IN /\ mr_table' = [mr_table EXCEPT ![h][src] = RefRelease(@)]
          /\ qp_table' = [qp_table EXCEPT ![h][q] = next_wr(qp)]
          /\ last' = Carry("exec_fin", 0)
    /\ pc' = [pc EXCEPT ![h][p] = "ps_exec"]
    /\ UNCHANGED <<mr_lock, qp_lock, mem, pid, ctx, wire, posts, injected, txlog>>

\* A return from post_send that leaves qp_lock held.
PostSendReturn_KeepLock(h, p) ==
    /\ pc[h][p] = "ps_exec"
    /\ LET qp == qp_table[h][ctx[h][p].qp]
       IN qp.sq_head = qp.sq_tail
    /\ pc' = [pc EXCEPT ![h][p] = "idle"]
    /\ ctx' = [ctx EXCEPT ![h][p] = NoCtx]
    /\ last' = Carry("post_send", 0)
    /\ UNCHANGED <<mr_table, mr_lock, qp_table, qp_lock, mem, pid, wire, posts,
                   injected, txlog>>

\* The SQ is drained: release(&qp_lock); return 0.
PostSendReturn(h, p) ==
    /\ pc[h][p] = "ps_exec"
    /\ LET qp == qp_table[h][ctx[h][p].qp]
       IN qp.sq_head = qp.sq_tail
    /\ qp_lock' = [qp_lock EXCEPT ![h] = 0]
    /\ pc' = [pc EXCEPT ![h][p] = "idle"]
    /\ ctx' = [ctx EXCEPT ![h][p] = NoCtx]
    /\ last' = Carry("post_send", 0)
    /\ UNCHANGED <<mr_table, mr_lock, qp_table, mem, pid, wire, posts, injected,
                   txlog>>

\* ------------------------------------------------------ network receive --

\* The pending-ACK slot rdma_net_rx matches an ACK to: the first valid entry
\* with the sequence number, or -1.
MatchAck(qp, seq_num) ==
    IF \E i \in AckIdx : qp.pending_acks[i].valid # 0
                         /\ qp.pending_acks[i].seq_num = seq_num
    THEN CHOOSE i \in AckIdx :
            /\ qp.pending_acks[i].valid # 0
            /\ qp.pending_acks[i].seq_num = seq_num
            /\ \A j \in AckIdx :
                  j < i => ~(qp.pending_acks[j].valid # 0
                             /\ qp.pending_acks[j].seq_num = seq_num)
    ELSE -1

\* Whether rdma_net_rx finds the QP a frame is addressed to.
RxQpOk(h, f) ==
    /\ f.hdr
    /\ ~(ntohs(f.dst_qp) >= MAX_QPS \/ qp_table[h][ntohs(f.dst_qp)].valid = 0)

\* The destination MR rdma_net_rx looks up for a WRITE frame; cur is the
\* process running on the CPU that takes the interrupt (myproc()).
RxDstMr(h, cur, f) == MrGet(h, cur, ntohl(f.remote_mr_id))

\* Whether a WRITE frame passes every check of rdma_net_rx.
RxWriteOk(h, cur, f) ==
    /\ RxQpOk(h, f)
    /\ RxDstMr(h, cur, f) # 0
    /\ LET dst_mr == mr_table[h][RxDstMr(h, cur, f)]
           offset == DstOffset(dst_mr, ntohll(f.remote_addr))
       IN /\ RemoteWritable(dst_mr)
          /\ offset # -1
          /\ DstBoundsOk(dst_mr, offset, ntohl(f.length))
          /\ Len(f.payload) >= ntohl(f.length)

\* dst_mr->hw.paddr + offset of a WRITE frame that passed the checks.
RxDst(h, cur, f) ==
    LET dst_mr == mr_table[h][RxDstMr(h, cur, f)]
    IN (dst_mr.paddr + DstOffset(dst_mr, ntohll(f.remote_addr))) % M64

\* The completion rdma_net_rx posts on the receiver for a WRITE frame.
RxWriteCqe(f) == Cqe(0, ntohl(f.length), RDMA_WC_SUCCESS, RDMA_OP_WRITE)

\* An ACK that keeps the frame's QP numbers as they came.
RxAck_Unswapped(h, qp, f) ==
    AckFrame(h, qp, ntohs(f.dst_qp), ntohl(f.seq_num), f.shost)

\* The ACK rdma_net_rx sends for a WRITE frame it applied.
RxAck(h, qp, f) == AckFrame(h, qp, ntohs(f.src_qp), ntohl(f.seq_num), f.shost)

\* The history after host h processed an ACK for seq_num on QP q that
\* produced n completions.
AckLogged(h, q, seq_num, n) ==
    [i \in 1 .. Len(txlog) |->
        IF txlog[i].host = h /\ txlog[i].qp = q /\ txlog[i].seq_num = seq_num
        THEN [txlog[i] EXCEPT !.acks = @ + 1, !.cqes = @ + n]
        ELSE txlog[i]]

\* The history after a host dropped WRITE frame f: the entry of the frame, if
\* a host of the model sent it, is marked.
DropLogged(f) ==
    [i \in 1 .. Len(txlog) |->
        IF /\ MacOf(txlog[i].host) = f.shost
           /\ txlog[i].qp = ntohs(f.src_qp)
           /\ txlog[i].seq_num = ntohl(f.seq_num)
        THEN [txlog[i] EXCEPT !.dropped = TRUE]
        ELSE txlog[i]]

\* rdma_net_rx on host h for the frame at the head of the wire, with process
\* cur (or none) running on the interrupted CPU.  mbuf_got and link_ok are
\* what mbufalloc() and e1000_transmit() answer inside rdma_net_tx_ack.
rdma_net_rx(h, cur, mbuf_got, link_ok) ==
    /\ wire[h] # <<>>
    /\ qp_lock[h] = 0
    /\ LET f == Head(wire[h])
           rest == Tail(wire[h])
           q == ntohs(f.dst_qp)
           qp == qp_table[h][q]
           ev == [Ev("rx", h, cur, 0) EXCEPT !.frame = f, !.qp = q]
       IN IF ~RxQpOk(h, f)
          THEN /\ wire' = [wire EXCEPT ![h] = rest]
               /\ last' = [ev EXCEPT !.ret = -1, !.qp = 0]
               /\ txlog' = IF f.opcode = RDMA_NET_OP_WRITE
                            THEN DropLogged(f) ELSE txlog
               /\ UNCHANGED <<qp_table, mem>>
          ELSE IF f.opcode = RDMA_NET_OP_WRITE
          THEN LET promoted ==
                      [qp EXCEPT !.state = IF qp.state = QP_STATE_RTR
                                           THEN QP_STATE_RTS ELSE @]
               IN IF ~RxWriteOk(h, cur, f)
                  THEN /\ qp_table' = [qp_table EXCEPT ![h][q] = promoted]
                       /\ wire' = [wire EXCEPT ![h] = rest]
                       /\ last' = [ev EXCEPT !.ret = -1]
                       /\ txlog' = DropLogged(f)
                       /\ UNCHANGED mem
                  ELSE LET length == ntohl(f.length)
                           dst == RxDst(h, cur, f)
                           bytes == SubSeq(f.payload, 1, length)
                           comp == RxWriteCqe(f)
                           ack == RxAck(h, qp, f)
                       IN /\ mem' = [mem EXCEPT ![h] = WriteMem(h, dst, bytes)]
                          /\ qp_table' = [qp_table EXCEPT ![h][q] =
                                [PostCqe(promoted, comp) EXCEPT
                                    !.stats_completions = (@ + 1) % M32]]
                          /\ wire' = [g \in Hosts |->
                                IF g = h THEN rest
                                ELSE IF mbuf_got /\ link_ok
                                THEN Append(wire[g], ack)
                                ELSE wire[g]]
                          /\ last' = Owe([ev EXCEPT
                                !.mr = RxDstMr(h, cur, f),
                                !.status = RDMA_WC_SUCCESS,
                                !.dst = dst, !.src = bytes,
                                !.writes = Span(dst, length),
                                !.cqes = <<comp>>,
                                !.mbuf = mbuf_got,
                                !.handed = IF mbuf_got THEN <<ack>> ELSE <<>>,
                                !.sent = IF mbuf_got /\ link_ok THEN <<ack>>
                                         ELSE <<>>])
                          /\ UNCHANGED txlog
          ELSE IF f.opcode = RDMA_NET_OP_ACK
          THEN LET seq_num == ntohl(f.seq_num)
                   i == MatchAck(qp, seq_num)
                   comp == Cqe(qp.pending_acks[i].wr_id, ntohl(f.length),
                               RDMA_WC_SUCCESS, RDMA_OP_WRITE)
               IN /\ qp_table' =
                        IF i = -1 THEN qp_table
                        ELSE [qp_table EXCEPT ![h][q] =
                                [PostCqe(qp, comp) EXCEPT
                                    !.stats_completions = (@ + 1) % M32,
                                    !.pending_acks[i].valid = 0]]
                  /\ wire' = [wire EXCEPT ![h] = rest]
                  /\ txlog' = AckLogged(h, q, seq_num, IF i = -1 THEN 0 ELSE 1)
                  /\ last' = Owe([ev EXCEPT
                                !.cqes = IF i = -1 THEN <<>> ELSE <<comp>>])
                  /\ UNCHANGED mem
          ELSE /\ wire' = [wire EXCEPT ![h] = rest]
               /\ last' = ev
               /\ UNCHANGED <<qp_table, mem, txlog>>
    /\ UNCHANGED <<mr_table, mr_lock, qp_lock, pid, pc, ctx, posts, injected>>

\* A frame from a sender other than the peer's RDMA code arrives on the link.
Inject(h, f) ==
    /\ injected < MaxInject
    /\ injected' = injected + 1
    /\ wire' = [wire EXCEPT ![h] = Append(@, f)]
    /\ last' = [Ev("inject", h, NoProc, 0) EXCEPT !.frame = f]
    /\ UNCHANGED <<mr_table, mr_lock, qp_table, qp_lock, mem, pid, pc, ctx, posts,
                   txlog>>

\* ------------------------------------------------------------- inputs ----

\* Access-flag combinations the callers register with.
SrcFlags == RDMA_ACCESS_LOCAL_READ
DstFlags == RDMA_ACCESS_LOCAL_WRITE + RDMA_ACCESS_REMOTE_WRITE
LocalOnlyFlags == RDMA_ACCESS_LOCAL_WRITE

Wr(wr_id, opcode, flags, lmr, loff, rmr, raddr, len) ==
    [wr_id |-> wr_id, opcode |-> opcode, flags |-> flags, local_mr_id |-> lmr,
     local_offset |-> loff, remote_mr_id |-> rmr, remote_addr |-> raddr,
     remote_key |-> rmr % M32, length |-> len]

\* Loopback runs: everything happens on host 1.
\* <<addr, len, flags>> a process passes to rdma_reg_mr.  The last tuple of
\* process 1 has addr + len past 2^64.
LoopRegs(p) ==
    IF p = 1
    THEN {<<1, 2, SrcFlags>>, <<PGSIZE, 2, DstFlags>>,
          <<2, M64 - 1, DstFlags>>}
    ELSE {<<1, 2, DstFlags>>}

\* <<sq_size, cq_size>> passed to rdma_create_qp.
LoopQpSizes == {<<2, 2>>, <<2, 1>>}

\* The work requests process 1 posts in loopback runs.
LoopWrs ==
    {Wr(3, RDMA_OP_WRITE, RDMA_WR_SIGNALED, 1, 0, 2, 0, 2),
     Wr(3, RDMA_OP_WRITE, 0, 1, 0, 2, 0, 2),
     Wr(3, RDMA_OP_WRITE, RDMA_WR_SIGNALED, 1, 0, 2, 1, 2),
     Wr(3, RDMA_OP_WRITE, 0, 1, 0, 2, 3, 1),
     Wr(3, RDMA_OP_WRITE, 0, 1, 0, MAX_MRS + 1, 0, 2),
     Wr(3, RDMA_OP_READ, RDMA_WR_SIGNALED, 1, 0, 2, 0, 2),
     Wr(3, RDMA_OP_WRITE, RDMA_WR_SIGNALED, 1, 0, 2, M64 - 2, 2),
     Wr(3, RDMA_OP_WRITE, RDMA_WR_SIGNALED, 1, 0, 2, PGSIZE, 1),
     Wr(3, RDMA_OP_WRITE, RDMA_WR_SIGNALED, 1, 0, 1, M64 - 2, PGSIZE),
     Wr(2, RDMA_OP_WRITE, 0, 1, 1, 1, 1, 1)}

\* Network runs: process 1 of host 1 sends, process 1 of host 2 receives.
NetRegs(h) ==
    IF h = 1 THEN {<<1, 2, SrcFlags>>}
    ELSE {<<1, 2, DstFlags>>, <<1, 2, LocalOnlyFlags>>}

\* remote_qp passed to rdma_connect: the peer's QP 0, or a number past the
\* peer's table on the sending host.
ConnectQps(h) == IF h = 1 THEN {0, MAX_QPS} ELSE {0}

\* The work requests process 1 of host 1 posts in network runs.
NetWrs ==
    {Wr(3, RDMA_OP_WRITE, RDMA_WR_SIGNALED, 1, 0, 1, 0, 2),
     Wr(2, RDMA_OP_WRITE, 0, 1, 0, 1, 0, 2),
     Wr(3, RDMA_OP_WRITE, RDMA_WR_SIGNALED, 1, 0, 1, 2, 2)}

\* Frames an outside sender puts on the link towards host h.
ForgedAck(h, seq_num) ==
    [AckFrame(Peer(h), ZeroQP, 0, seq_num, MacOf(h)) EXCEPT !.shost = ForeignMac]

\* A WRITE to MR rmr, offset 0, that names QP 2 as its source.
ForgedWrite(h, rmr, len, payload) ==
    [ForgedAck(h, 1) EXCEPT !.opcode = RDMA_NET_OP_WRITE,
                            !.src_qp = htons(2),
                            !.remote_mr_id = htonl(rmr),
                            !.length = htonl(len), !.payload = payload]

\* An ACK for sequence number 1 towards the sender; towards the receiver a
\* WRITE whose payload is shorter than its length field and a well-formed one.
InjectInputs(h) ==
    IF h = 1 THEN {ForgedAck(h, 1)}
    ELSE {ForgedWrite(h, 1, 2, <<7>>), ForgedWrite(h, 1, 2, <<7, 9>>)}

\* Registry runs: the addresses and lengths the processes of host 1 pass to
\* rdma_reg_mr: zero, inside a page, across a page boundary, a whole page,
\* past p->sz, and lengths that carry addr + len past 2^64.
RegAddrs == {0, 1, 2, PGSIZE - 1, PGSIZE}
RegLens == {0, 1, 2, PGSIZE, M64 - 1}

\* ---------------------------------------------------------- the system ---

\* Loopback: the processes of host 1 use the MR registry and one process
\* drives one QP, in slot 0, that is never connected.
Next ==
    \/ \E p \in Procs : \E r \in LoopRegs(p) :
            rdma_mr_register(1, p, r[1], r[2], r[3])
    \/ \E p \in Procs, m \in MrIds : sys_rdma_dereg_mr(1, p, m)
    \/ \E s \in LoopQpSizes :
            /\ FreeQpSlot(1) = 0
            /\ rdma_qp_create(1, 1, s[1], s[2], TRUE, TRUE)
    \/ rdma_qp_destroy(1, 1, 0)
    \/ rdma_qp_poll_cq(1, 1, 0, CQ_CAP)
    \/ \E wr \in LoopWrs : posts[1] < MaxPosts /\ PostSendMr(1, 1, 0, wr)
    \/ PostSendQp(1, 1)
    \/ PostSendUndo(1, 1)
    \/ ExecDispatch(1, 1, TRUE, TRUE)
    \/ ExecFinish(1, 1)
    \/ PostSendReturn(1, 1)

Spec == Init /\ [][Next]_vars

\* Network: host 1 sends WRITEs to host 2 over the link; frames may be lost at
\* either NIC and an outside sender may add a frame.  As in user/rdmanet_test.c
\* the process of each host registers one MR and creates one QP.
NextNet ==
    \/ \E h \in Hosts : \E r \in NetRegs(h) :
            /\ mr_table[h][1].valid = 0
            /\ rdma_mr_register(h, 1, r[1], r[2], r[3])
    \/ \E h \in Hosts :
            /\ FreeQpSlot(h) = 0
            /\ rdma_qp_create(h, 1, 2, 2, TRUE, TRUE)
    \/ \E h \in Hosts, p \in Procs : \E r \in ConnectQps(h) :
            rdma_qp_connect(h, p, 0, MacOf(Peer(h)), r)
    \/ \E h \in Hosts : rdma_qp_poll_cq(h, 1, 0, CQ_CAP)
    \/ \E wr \in NetWrs : posts[1] < NetPosts /\ PostSendMr(1, 1, 0, wr)
    \/ PostSendQp(1, 1)
    \/ PostSendUndo(1, 1)
    \/ \E mbuf_got, link_ok \in BOOLEAN : ExecDispatch(1, 1, mbuf_got, link_ok)
    \/ ExecFinish(1, 1)
    \/ PostSendReturn(1, 1)
    \/ \E h \in Hosts, cur \in {1, NoProc} :
            \E mbuf_got, link_ok \in BOOLEAN : rdma_net_rx(h, cur, mbuf_got, link_ok)
    \/ \E h \in Hosts : \E f \in InjectInputs(h) : Inject(h, f)

SpecNet == Init /\ [][NextNet]_vars

\* Queue pairs: process 1 of host 1 creates QPs, both processes try to connect
\* and destroy them; a kalloc() of rdma_qp_create may find no free page.
QpSizes ==
    {<<0, 1>>, <<1, CQ_CAP>>, <<2, 1>>, <<RING_CAP, 2>>, <<2, 3>>,
     <<RING_CAP + 1, 2>>, <<2, CQ_CAP + 1>>}

\* The answers of the two kalloc() calls.
QpPages == {<<TRUE, TRUE>>, <<FALSE, TRUE>>, <<TRUE, FALSE>>}

NextQp ==
    \/ \E s \in QpSizes, got \in QpPages :
            rdma_qp_create(1, 1, s[1], s[2], got[1], got[2])
    \/ \E p \in Procs, q \in QpIds : rdma_qp_destroy(1, p, q)
    \/ \E p \in Procs, q \in QpIds, r \in {0, 1} :
            rdma_qp_connect(1, p, q, MacOf(Peer(1)), r)

SpecQp == Init /\ [][NextQp]_vars

\* Ownership: both processes of host 1 register an MR and try every
\* operation on every MR and on the QP the first process of slot 1 created,
\* which that process itself never connects; the first process of a slot may
\* exit and leave the slot to a new one.
OwnFlags == SrcFlags + DstFlags
OwnWrs == {Wr(3, RDMA_OP_WRITE, RDMA_WR_SIGNALED, m, 0, m, 2, 1) : m \in MrIds}

NextOwn ==
    \/ \E p \in Procs : rdma_mr_register(1, p, 1, 2, OwnFlags)
    \/ \E p \in Procs, m \in MrIds : rdma_mr_deregister(1, p, m)
    \/ /\ FreeQpSlot(1) = 0 /\ pid[1][1] = FirstPid(1)
       /\ rdma_qp_create(1, 1, 2, 2, TRUE, TRUE)
    \/ \E p \in Procs : rdma_qp_destroy(1, p, 0)
    \/ \E p \in Procs :
            /\ ~(p = 1 /\ pid[1][1] = FirstPid(1))
            /\ rdma_qp_connect(1, p, 0, MacOf(Peer(1)), 0)
    \/ \E p \in Procs : rdma_qp_poll_cq(1, p, 0, CQ_CAP)
    \/ \E p \in Procs, wr \in OwnWrs :
            posts[1] < MaxPosts /\ PostSendMr(1, p, 0, wr)
    \/ \E p \in Procs : PostSendQp(1, p)
    \/ \E p \in Procs : PostSendUndo(1, p)
    \/ \E p \in Procs : ExecDispatch(1, p, TRUE, TRUE)
    \/ \E p \in Procs : ExecFinish(1, p)
    \/ \E p \in Procs : PostSendReturn(1, p)
    \/ \E p \in Procs : pid[1][p] = FirstPid(p) /\ ProcExit(1, p)

SpecOwn == Init /\ [][NextOwn]_vars

\* Sequence numbers: process 1 of host 1 sets up one connected QP and posts
\* as many WRITEs as the 32-bit counter has values; every frame is handed to
\* the NIC and none is received.
SeqPosts == M32
SeqWrs ==
    {Wr(3, RDMA_OP_WRITE, f, 1, 0, 1, 1, 1) : f \in {0, RDMA_WR_SIGNALED}}

NextSeq ==
    \/ mr_table[1][1].valid = 0 /\ rdma_mr_register(1, 1, 1, 2, SrcFlags)
    \/ FreeQpSlot(1) = 0 /\ rdma_qp_create(1, 1, 2, 2, TRUE, TRUE)
    \/ rdma_qp_connect(1, 1, 0, MacOf(Peer(1)), 0)
    \/ \E wr \in SeqWrs : posts[1] < SeqPosts /\ PostSendMr(1, 1, 0, wr)
    \/ PostSendQp(1, 1)
    \/ PostSendUndo(1, 1)
    \/ ExecDispatch(1, 1, TRUE, TRUE)
    \/ ExecFinish(1, 1)
    \/ PostSendReturn(1, 1)

SpecSeq == Init /\ [][NextSeq]_vars

\* Completion order: process 1 of host 1 posts numbered work requests on one
\* loopback QP (signaled and unsignaled WRITEs, and READs, which complete in
\* error) and polls one CQE or as many as there are.
OrdWrs(n) ==
    {Wr(n, RDMA_OP_WRITE, RDMA_WR_SIGNALED, 1, 0, 1, 2, 1),
     Wr(n, RDMA_OP_WRITE, 0, 1, 0, 1, 2, 1),
     Wr(n, RDMA_OP_READ, 0, 1, 0, 1, 2, 1)}

NextOrd ==
    \/ mr_table[1][1].valid = 0 /\ rdma_mr_register(1, 1, 1, 2, OwnFlags)
    \/ \E cq_size \in {1, 2, CQ_CAP} :
            /\ FreeQpSlot(1) = 0
            /\ rdma_qp_create(1, 1, 2, cq_size, TRUE, TRUE)
    \/ \E max_comps \in {1, CQ_CAP} : rdma_qp_poll_cq(1, 1, 0, max_comps)
    \/ \E wr \in OrdWrs(posts[1] + 1) :
            posts[1] < OrdPosts /\ PostSendMr(1, 1, 0, wr)
    \/ PostSendQp(1, 1)
    \/ PostSendUndo(1, 1)
    \/ ExecDispatch(1, 1, TRUE, TRUE)
    \/ ExecFinish(1, 1)
    \/ PostSendReturn(1, 1)

SpecOrd == Init /\ [][NextOrd]_vars

\* Registry: the processes of host 1 register and deregister MRs.
NextReg ==
    \/ \E p \in Procs, addr \in RegAddrs, len \in RegLens :
            rdma_mr_register(1, p, addr, len, DstFlags)
    \/ \E p \in Procs, m \in MrIds : sys_rdma_dereg_mr(1, p, m)

SpecReg == Init /\ [][NextReg]_vars

\* ------------------------------------------------------------- claims ----

\* What the steps below are about.
IsWrite(wr) == wr.opcode = RDMA_OP_WRITE
IsSignaled(wr) == HasFlag(wr.flags, RDMA_WR_SIGNALED)

\* The completions of a sequence that carry a wr_id.
CqesFor(cqes, wr_id) == {i \in 1 .. Len(cqes) : cqes[i].wr_id = wr_id}

\* A loopback executor pass that copies for a signaled WRITE writes, at the
\* resolved destination offset, the bytes the source MR held at local_offset.
C1_CopyStep ==
    (/\ last'.op = "exec" /\ ~last'.netmode
     /\ IsWrite(last'.wr) /\ IsSignaled(last'.wr)
     /\ last'.status = RDMA_WC_SUCCESS)
    => LET h == last'.host
           c == ctx[h][last'.proc]
           src_mr == mr_table[h][c.mr]
           dst_mr == mr_table[h][c.wr.remote_mr_id]
           offset == DstOffset(dst_mr, c.wr.remote_addr)
       IN \A i \in 0 .. (c.wr.length - 1) :
             mem'[h][(dst_mr.paddr + offset + i) % M64]
                = mem[h][(src_mr.paddr + c.wr.local_offset + i) % M64]

\* The poll_cq that follows a post_send whose signaled loopback WRITE ended
\* with SUCCESS returns exactly one CQE with the WR's wr_id, and that CQE is
\* SUCCESS with byte_len = length.
C1_PollStep ==
    (/\ last.op = "post_send" /\ last.ret = 0 /\ ~last.netmode
     /\ IsWrite(last.wr) /\ IsSignaled(last.wr)
     /\ last.status = RDMA_WC_SUCCESS
     /\ last'.op = "qp_poll_cq" /\ last'.ret >= 0
     /\ last'.host = last.host /\ last'.proc = last.proc /\ last'.qp = last.qp)
    => /\ Cardinality(CqesFor(last'.out, last.wr.wr_id)) = 1
       /\ \A i \in CqesFor(last'.out, last.wr.wr_id) :
             /\ last'.out[i].status = RDMA_WC_SUCCESS
             /\ last'.out[i].byte_len = last.wr.length

\* C1: a signaled loopback WRITE of n bytes that yields a SUCCESS CQE leaves
\* the n destination bytes equal to the n source bytes, and poll_cq returns
\* exactly one CQE for it (the WR's wr_id, SUCCESS, byte_len = n).
C1_LoopbackWriteIsMemcpy == [][C1_CopyStep /\ C1_PollStep]_vars

\* The bytes of host h a step changes.
Changed(h) == {a \in 0 .. (M64 - 1) : mem'[h][a] # mem[h][a]}

\* The bytes a step changes on host h lie in [paddr + offset, paddr + offset +
\* length) and that interval lies in the MR's span [paddr, paddr + mr.length),
\* as sets of integers.
InsideSpan(h, mr, remote_addr, length) ==
    LET first == mr.paddr + DstOffset(mr, remote_addr)
    IN /\ Changed(h) \subseteq first .. (first + length - 1)
       /\ (first .. (first + length - 1))
             \subseteq mr.paddr .. (mr.paddr + mr.length - 1)

C2_Step ==
    \A h \in Hosts :
        IF last'.host = h /\ last'.op = "exec" /\ ~last'.netmode
           /\ IsWrite(last'.wr) /\ last'.status = RDMA_WC_SUCCESS
        THEN InsideSpan(h, mr_table[h][last'.wr.remote_mr_id],
                        last'.wr.remote_addr, last'.wr.length)
        ELSE IF last'.host = h /\ last'.op = "rx" /\ last'.mr # 0
        THEN InsideSpan(h, mr_table[h][last'.mr],
                        ntohll(last'.frame.remote_addr),
                        ntohl(last'.frame.length))
        ELSE Changed(h) = {}

\* C2: every byte a WRITE writes (loopback executor or network receive path)
\* lies inside [dst_mr.paddr + offset, dst_mr.paddr + offset + length), that
\* interval lies inside the destination MR's span, and a WR or frame that
\* fails a check writes no byte.
C2_WritesStayInsideMr == [][C2_Step]_vars

C3_Inv ==
    \A h \in Hosts, m \in MrIds :
        mr_table[h][m].refcount > 0 => mr_table[h][m].valid # 0

C3_Step ==
    \A h \in Hosts, m \in MrIds :
        (/\ last'.op = "mr_deregister" /\ last'.host = h /\ last'.mr = m
         /\ mr_table[h][m].refcount > 0)
        => /\ last'.ret = -1
           /\ mr_table'[h][m] = mr_table[h][m]
           /\ mr_table'[h][m].valid # 0

HoldsRef(h, p, m) ==
    /\ ctx[h][p].mr = m
    /\ \/ pc[h][p] \in {"ps_qp", "ps_undo", "ps_fin"}
       \/ /\ pc[h][p] = "ps_exec"
          /\ qp_table[h][ctx[h][p].qp].sq_head # qp_table[h][ctx[h][p].qp].sq_tail

C4_Inv ==
    \A h \in Hosts, m \in MrIds :
        mr_table[h][m].valid # 0 =>
            /\ mr_table[h][m].refcount >= 0
            /\ mr_table[h][m].refcount
                  = Cardinality({p \in Procs : HoldsRef(h, p, m)})

\* A deregister call by the owner of a valid MR (the owner is in no post_send
\* call, so every WR it posted has been executed or rejected) succeeds.
C4_Step ==
    \A h \in Hosts, m \in MrIds :
        (/\ last'.op = "mr_deregister" /\ last'.host = h /\ last'.mr = m
         /\ mr_table[h][m].valid # 0
         /\ mr_table[h][m].owner = last'.proc
         /\ mr_table[h][m].owner_pid = pid[h][last'.proc])
        => /\ mr_table[h][m].refcount = 0
           /\ last'.ret = 0
           /\ mr_table'[h][m].valid = 0

\* C4: a valid MR's refcount is never negative and equals the number of
\* post_send calls that took a reference on it (the WR passed the MR checks)
\* and whose executor dispatch, or rejection, has not finished; once they have
\* finished refcount is 0 and mr_deregister by the owner succeeds.
C4_RefcountCountsInFlight == []C4_Inv /\ [][C4_Step]_vars

\* The owner deregistered an MR that a WR it posted, and the executor ran,
\* named as local MR.
C4_Witness ==
    /\ last.op = "mr_deregister" /\ last.ret = 0 /\ last.host = 1
    /\ qp_table[1][0].valid # 0
    /\ qp_table[1][0].stats_sends = 1
    /\ qp_table[1][0].sq[0].local_mr_id = last.mr

C5_Step ==
    (last'.op = "exec" /\ ~last'.netmode)
    => LET old == qp_table[last'.host][last'.qp]
           new == qp_table'[last'.host][last'.qp]
       IN IF ~IsSignaled(last'.wr) /\ last'.status = RDMA_WC_SUCCESS
          THEN new.cq = old.cq /\ new.cq_tail = old.cq_tail
          ELSE /\ new.cq_tail = (old.cq_tail + 1) % old.cq_size
               /\ new.cq[old.cq_tail].wr_id = last'.wr.wr_id
               /\ new.cq[old.cq_tail].status = last'.status
               /\ \A i \in CqIdx : i # old.cq_tail => new.cq[i] = old.cq[i]

\* C5: on a loopback QP an unsignaled WR that executes with SUCCESS appends
\* no CQE; a signaled WR, or one that executes with an error status, appends
\* exactly one CQE carrying the WR's wr_id.
C5_CqePolicy == [][C5_Step]_vars

\* An unsignaled WR that failed and got its completion.
C5_Witness ==
    /\ last.op = "exec" /\ ~last.netmode
    /\ ~IsSignaled(last.wr) /\ last.status # RDMA_WC_SUCCESS
    /\ Len(last.cqes) = 1

\* The sender-side completion an ACK step posted for history entry e, if any,
\* carries the wr_id of e's frame.
C6_CqeNamesWr ==
    (/\ last.op = "rx" /\ last.frame.opcode = RDMA_NET_OP_ACK
     /\ Len(last.cqes) = 1)
    => \A i \in 1 .. Len(txlog) :
          (/\ txlog[i].host = last.host /\ txlog[i].qp = last.qp
           /\ txlog[i].seq_num = ntohl(last.frame.seq_num))
          => /\ last.cqes[1].wr_id = txlog[i].wr_id
             /\ last.cqes[1].status = RDMA_WC_SUCCESS

\* C6: for every WRITE frame F a network-mode post_send handed to the link
\* with sequence number s, either no ACK with seq_num = s has reached the
\* sender and no CQE was produced for F, or such ACKs have arrived and
\* together produced exactly one SUCCESS CQE, carrying F's wr_id.
C6_AckOrNothing ==
    /\ \A i \in 1 .. Len(txlog) :
          \/ txlog[i].acks = 0 /\ txlog[i].cqes = 0
          \/ txlog[i].acks >= 1 /\ txlog[i].cqes = 1
    /\ C6_CqeNamesWr

\* The set-up of scenario N1 on receiving host h for WRITE frame f of host g:
\* QP 0 created and connected to g's MAC and QP 0, MR 1 registered with
\* REMOTE_WRITE, the frame signaled, addressed to QP 0 and MR 1, and with its
\* span inside the MR.
C7_Setup(h, g, f) ==
    /\ f.opcode = RDMA_NET_OP_WRITE /\ f.shost = MacOf(g)
    /\ f.flags = RDMA_PKT_FLAG_SIGNALED
    /\ ntohs(f.dst_qp) = 0 /\ ntohs(f.src_qp) = 0
    /\ ntohl(f.remote_mr_id) = 1
    /\ qp_table[h][0].valid # 0 /\ qp_table[h][0].connected = 1
    /\ qp_table[h][0].remote_mac = MacOf(g)
    /\ qp_table[h][0].remote_qp_num = 0
    /\ mr_table[h][1].valid # 0
    /\ RemoteWritable(mr_table[h][1])
    /\ ntohll(f.remote_addr) + ntohl(f.length) <= mr_table[h][1].length
    /\ Len(f.payload) = ntohl(f.length)

\* C7: scenario N1.  Once the WRITE frame of A's signaled WR has been
\* delivered to B's receive handler, B's MR holds the payload and B's CQ holds
\* the CQE {wr_id = 0, byte_len = length, status = SUCCESS}; once B's ACK has
\* been delivered to A's receive handler, A's CQ got one SUCCESS CQE with the
\* WR's wr_id.  (Nothing retransmits, so what the delivery step leaves undone
\* is never done later.)
C7_N1Delivers ==
    /\ (last.op = "rx" /\ last.host = 2 /\ C7_Setup(2, 1, last.frame))
        => LET f == last.frame
               mr == mr_table[2][1]
               qp == qp_table[2][0]
           IN /\ ReadMem(2, mr.paddr + ntohll(f.remote_addr), ntohl(f.length))
                    = f.payload
              /\ qp.cq[(qp.cq_tail + qp.cq_size - 1) % qp.cq_size]
                    = Cqe(0, ntohl(f.length), RDMA_WC_SUCCESS, RDMA_OP_WRITE)
    /\ (/\ last.op = "rx" /\ last.host = 1
         /\ last.frame.opcode = RDMA_NET_OP_ACK
         /\ last.frame.shost = MacOf(2) /\ last.frame.dhost = MacOf(1)
         /\ ntohs(last.frame.dst_qp) = 0 /\ ntohs(last.frame.src_qp) = 0)
        => \A i \in 1 .. Len(txlog) :
              (/\ txlog[i].host = 1 /\ txlog[i].signaled
               /\ txlog[i].seq_num = ntohl(last.frame.seq_num))
              => txlog[i].cqes = 1

\* The step just taken was rdma_net_rx for a WRITE frame that passes every
\* check (rdma_net_rx changes neither the MR table nor a QP's valid flag, so
\* the checks read the same before and after the step).
C8_Passed ==
    /\ last.op = "rx"
    /\ last.frame.opcode = RDMA_NET_OP_WRITE
    /\ RxWriteOk(last.host, last.proc, last.frame)

\* The payload is in the destination MR at the resolved offset and the CQE
\* {0, length, SUCCESS, WRITE} is the newest entry of the CQ of QP dst_qp.
C8_CopiedAndCompleted ==
    LET h == last.host
        f == last.frame
        qp == qp_table[h][ntohs(f.dst_qp)]
        mr == mr_table[h][ntohl(f.remote_mr_id)]
        length == ntohl(f.length)
        offset == DstOffset(mr, ntohll(f.remote_addr))
    IN /\ \A i \in 1 .. length :
             mem[h][(mr.paddr + offset + i - 1) % M64] = f.payload[i]
       /\ qp.cq[(qp.cq_tail + qp.cq_size - 1) % qp.cq_size]
             = [wr_id |-> 0, byte_len |-> length, status |-> RDMA_WC_SUCCESS,
                opcode |-> RDMA_OP_WRITE]
       /\ Len(last.cqes) = 1

\* Exactly one frame went to e1000_transmit: an ACK to the frame's source MAC
\* with the frame's seq_num, the QP numbers swapped and no payload.
C8_OneAck ==
    LET f == last.frame
    IN /\ Len(last.handed) = 1
       /\ last.handed[1].opcode = RDMA_NET_OP_ACK
       /\ last.handed[1].dhost = f.shost
       /\ last.handed[1].shost = MacOf(last.host)
       /\ ntohl(last.handed[1].seq_num) = ntohl(f.seq_num)
       /\ ntohs(last.handed[1].src_qp) = qp_table[last.host][ntohs(f.dst_qp)].id
       /\ ntohs(last.handed[1].dst_qp) = ntohs(f.src_qp)
       /\ last.handed[1].payload = <<>>
       /\ ntohl(last.handed[1].length) = 0

C9_RxStep ==
    \A h \in Hosts :
        (/\ last'.op = "rx" /\ last'.host = h
         /\ wire[h] # <<>>
         /\ Head(wire[h]).opcode = RDMA_NET_OP_WRITE
         /\ ~RxWriteOk(h, last'.proc, Head(wire[h])))
        => /\ mem'[h] = mem[h]
           /\ qp_table'[h] = qp_table[h]
           /\ mr_table'[h] = mr_table[h]
           /\ wire'[Peer(h)] = wire[Peer(h)]
           /\ last'.handed = <<>> /\ last'.cqes = <<>>

\* A frame the receiver dropped has produced no CQE on its sender, and the
\* pending_acks entry recorded for it at transmit time is still valid.
C9_SenderInv ==
    \A i \in 1 .. Len(txlog) :
        txlog[i].dropped =>
            /\ txlog[i].cqes = 0
            /\ txlog[i].tracked =>
                  \E k \in AckIdx :
                     LET a == qp_table[txlog[i].host][txlog[i].qp].pending_acks[k]
                     IN a.valid # 0 /\ a.seq_num = txlog[i].seq_num
                        /\ a.wr_id = txlog[i].wr_id

\* C9: an inbound WRITE frame that fails a validation step is dropped
\* silently (no destination byte modified, no CQE appended on the receiver,
\* no ACK emitted, the receiver's QP and MR tables unchanged), and on the
\* sender the pending_acks entry for its sequence number stays valid and no
\* CQE for the WR is ever posted.
C9_InvalidFrameDropped == []C9_SenderInv /\ [][C9_RxStep]_vars

\* The step appended exactly one CQE {wr_id, 0, status, opcode} to the CQ of
\* the QP it ran on.
C10_ErrCqe(status) ==
    LET old == qp_table[last'.host][last'.qp]
        new == qp_table'[last'.host][last'.qp]
    IN /\ new.cq_tail = (old.cq_tail + 1) % old.cq_size
       /\ new.cq[old.cq_tail]
             = [wr_id |-> last'.wr.wr_id, byte_len |-> 0, status |-> status,
                opcode |-> last'.wr.opcode]
       /\ \A i \in CqIdx : i # old.cq_tail => new.cq[i] = old.cq[i]
       /\ last'.cqes = <<new.cq[old.cq_tail]>>

\* The destination MR of the WR is missing, not the poster's, or not
\* remote-writable.
C10_AccessFails(h, p, wr) ==
    \/ wr.remote_mr_id \notin MrIds
    \/ LET mr == mr_table[h][wr.remote_mr_id]
       IN \/ mr.valid = 0
          \/ mr.owner # p \/ mr.owner_pid # pid[h][p]
          \/ ~RemoteWritable(mr)

\* remote_addr resolves to no offset of the MR, or offset + length passes the
\* end of the MR, the sums taken as integers.
C10_AddressFails(mr, wr) ==
    LET absolute == mr.vaddr <= wr.remote_addr
                    /\ wr.remote_addr < mr.vaddr + mr.length
        relative == wr.remote_addr < mr.length
        offset == IF absolute THEN wr.remote_addr - mr.vaddr ELSE wr.remote_addr
    IN \/ ~absolute /\ ~relative
       \/ offset + wr.length > mr.length

C10_Step ==
    (/\ last'.op = "exec" /\ ~last'.netmode /\ last'.mr # 0
     /\ IsWrite(last'.wr))
    => LET h == last'.host
           p == last'.proc
           wr == last'.wr
       IN IF C10_AccessFails(h, p, wr)
          THEN C10_ErrCqe(RDMA_WC_REM_ACCESS_ERR) /\ mem' = mem
          ELSE IF C10_AddressFails(mr_table[h][wr.remote_mr_id], wr)
          THEN C10_ErrCqe(RDMA_WC_REM_INV_REQ)
          ELSE TRUE

\* C10: a loopback WRITE whose destination MR id is invalid, is not owned by
\* the poster or lacks REMOTE_WRITE appends exactly one CQE with status
\* REM_ACCESS_ERR and byte_len 0, signaled or not, and changes no byte; a
\* destination address or bounds failure appends exactly one CQE with status
\* REM_INV_REQ and byte_len 0.
C10_RemoteErrorCqes == [][C10_Step]_vars

\* The valid slots of the MR table of host h.
ValidMrs(h) == {m \in MrIds : mr_table[h][m].valid # 0}

\* A process that has just got MR id m from rdma_reg_mr and calls
\* rdma_dereg_mr(m) next gets 0, and slot m is free again.
C11_Step ==
    \A h \in Hosts, m \in MrIds :
        (/\ last.op = "mr_register" /\ last.host = h /\ last.ret = m
         /\ last'.op \in {"mr_deregister", "sys_dereg_mr"}
         /\ last'.host = h /\ last'.proc = last.proc /\ last'.mr = m)
        => /\ last'.ret = 0
           /\ ValidMrs(h)' = ValidMrs(h) \ {m}

\* C11: for every MR id registration can return (every slot 1..MAX_MRS),
\* rdma_dereg_mr of that id by the same process right after rdma_reg_mr
\* succeeds and frees the slot, so the valid slots are those from before the
\* registration.
C11_RegisterDeregisterRoundTrip == [][C11_Step]_vars

\* The page an address lies on, as an integer.
PageOf(a) == a \div PGSIZE

\* The free slots of the MR table of host h.
FreeMrs(h) == MrIds \ ValidMrs(h)

\* A call rdma_mr_register(addr, len, _) by process p of host h has to fail:
\* a zero argument, a range past p->sz or across a page boundary (sums as
\* integers), an unmapped page, or no free slot.
C12_MustFail(h, p, addr, len) ==
    \/ addr = 0 \/ len = 0
    \/ addr + len > ProcSz(p)
    \/ PageOf(addr) # PageOf(addr + len - 1)
    \/ Walk(p, addr) = -1
    \/ FreeMrs(h) = {}

C12_Step ==
    \A h \in Hosts :
        (last'.op = "mr_register" /\ last'.host = h)
        => IF C12_MustFail(h, last'.proc, last'.addr, last'.len)
           THEN last'.ret = -1 /\ mr_table' = mr_table
           ELSE LET i == CHOOSE i \in FreeMrs(h) :
                            \A j \in FreeMrs(h) : i <= j
                    mr == mr_table'[h][i]
                IN /\ last'.ret = i
                   /\ mr.valid = 1 /\ mr.id = i /\ mr.lkey = i /\ mr.rkey = i
                   /\ mr.owner = last'.proc
                   /\ mr.owner_pid = pid[h][last'.proc]
                   /\ mr.refcount = 0
                   /\ mr.vaddr = last'.addr /\ mr.length = last'.len
                   /\ \A j \in MrIds : j # i => mr_table'[h][j] = mr_table[h][j]

\* C12: mr_register returns an error and leaves the MR table unchanged when
\* vaddr = 0, length = 0, the range extends beyond the caller's user size or
\* crosses a page boundary, the page is not mapped, or every slot is valid;
\* otherwise it fills the lowest free slot (owner, owner_pid, refcount = 0,
\* lkey = rkey = id, valid = 1), returns its id and touches no other slot.
C12_RegisterChecks == [][C12_Step]_vars

\* A range of at least one byte that ends inside the caller's address space,
\* registered while a slot is free.
C13_Inside(h, p, addr, len) ==
    /\ len >= 1 /\ addr + len <= ProcSz(p)
    /\ FreeMrs(h) # {}

C13_Step ==
    \A h \in Hosts :
        (/\ last'.op = "mr_register" /\ last'.host = h
         /\ last'.addr # 0
         /\ C13_Inside(h, last'.proc, last'.addr, last'.len))
        => (last'.ret # -1
              <=> PageOf(last'.addr) = PageOf(last'.addr + last'.len - 1))

C13_StepAnyAddr ==
    \A h \in Hosts :
        (/\ last'.op = "mr_register" /\ last'.host = h
         /\ C13_Inside(h, last'.proc, last'.addr, last'.len))
        => (last'.ret # -1
              <=> PageOf(last'.addr) = PageOf(last'.addr + last'.len - 1))

C14_ValidMrShape ==
    \A h \in Hosts, m \in MrIds :
        mr_table[h][m].valid # 0 =>
            LET mr == mr_table[h][m]
            IN /\ mr.length > 0 /\ mr.vaddr # 0 /\ mr.paddr # 0
               /\ PageOf(mr.vaddr) = PageOf(mr.vaddr + mr.length - 1)
               /\ mr.vaddr + mr.length <= ProcSz(mr.owner)

\* A power of two, as an integer.
IsPow2(n) == \E k \in 0 .. W32 : n = 2 ^ k

\* A ring size rdma_qp_create has to refuse.
C15_BadSize(n, cap) == n = 0 \/ ~IsPow2(n) \/ n > cap

\* The invalid slots of the QP table of host h.
FreeQps(h) == {q \in QpIds : qp_table[h][q].valid = 0}

C15_Step ==
    \A h \in Hosts :
        (last'.op = "qp_create" /\ last'.host = h)
        => LET made == {q \in QpIds : /\ qp_table[h][q].valid = 0
                                      /\ qp_table'[h][q].valid # 0}
               lowest == CHOOSE q \in FreeQps(h) : \A r \in FreeQps(h) : q <= r
           IN IF \/ C15_BadSize(last'.sq_size, RING_CAP)
                 \/ C15_BadSize(last'.cq_size, CQ_CAP)
                 \/ FreeQps(h) = {}
              THEN last'.ret = -1 /\ made = {}
              ELSE IF last'.kalloc
              THEN /\ last'.ret = lowest /\ made = {lowest}
                   /\ qp_table'[h][lowest].sq_size = last'.sq_size
                   /\ qp_table'[h][lowest].cq_size = last'.cq_size
              ELSE last'.ret = -1 /\ made = {}

\* C15: qp_create fails, with no slot made valid, when a size is 0, not a
\* power of two or above page_size / entry_size, and when every slot is in
\* use; with a free slot and free pages it succeeds for every power-of-two
\* size up to page_size / entry_size and returns the lowest free slot.
C15_QpCreateSizes == [][C15_Step]_vars

\* Slot 0 was freed and handed out again while slot 1 was in use.
C15_Witness ==
    /\ last.op = "qp_create" /\ last.ret = 0
    /\ qp_table[1][1].valid # 0
    /\ last.sq_size = 2 /\ last.cq_size = 1

C16_Step ==
    \A h \in Hosts :
        (last'.op = "qp_connect" /\ last'.host = h /\ last'.qp \in QpIds)
        => LET old == qp_table[h][last'.qp]
           IN /\ last'.ret \in {0, -1}
              /\ last'.ret = 0 =>
                    /\ old.valid # 0 /\ old.owner = last'.proc
                    /\ old.state = QP_STATE_INIT
                    /\ qp_table' = [qp_table EXCEPT ![h][last'.qp] =
                            [old EXCEPT !.remote_mac = last'.mac,
                                        !.remote_qp_num = last'.remote_qp,
                                        !.network_mode = 1, !.connected = 1,
                                        !.tx_seq_num = 1, !.rx_expected_seq = 1,
                                        !.state = QP_STATE_RTS]]
              /\ (old.valid # 0 /\ old.state = QP_STATE_RTS) =>
                    last'.ret = -1 /\ qp_table' = qp_table

\* C16: qp_connect succeeds only on a valid QP owned by the caller in state
\* INIT, and then stores remote_mac and remote_qp_num and sets network_mode,
\* connected, tx_seq_num = 1, rx_expected_seq = 1 and state RTS; a connect on
\* a QP that is already connected fails and changes no field of any QP.
C16_ConnectOnce == [][C16_Step]_vars

\* The owner's second connect, naming another remote QP after a frame was
\* sent, was refused.
C16_Witness ==
    /\ last.op = "qp_connect" /\ last.ret = -1 /\ last.proc = 1 /\ last.host = 1
    /\ qp_table[1][0].valid # 0 /\ qp_table[1][0].state = QP_STATE_RTS
    /\ qp_table[1][0].tx_seq_num = 2
    /\ qp_table[1][0].remote_qp_num # last.remote_qp

\* C17: in every reachable state, between the steps of the executor too,
\* every valid QP has outstanding_ops = (sq_tail - sq_head) mod sq_size.
C17_OutstandingIsQueueLength ==
    \A h \in Hosts, q \in QpIds :
        qp_table[h][q].valid # 0 =>
            LET qp == qp_table[h][q]
            IN qp.outstanding_ops = (qp.sq_tail - qp.sq_head) % qp.sq_size

\* A work request is queued and its executor pass has copied but not yet
\* moved the head.
C17_Witness ==
    /\ pc[1][1] = "ps_fin"
    /\ qp_table[1][0].valid # 0
    /\ qp_table[1][0].outstanding_ops = 1
    /\ qp_table[1][0].sq_tail # qp_table[1][0].sq_head

\* Process p of host h is not the process that registered MR m.
NotMrOwner(h, p, m) ==
    mr_table[h][m].owner # p \/ mr_table[h][m].owner_pid # pid[h][p]

\* Process p of host h is not the process that created QP q.  In the
\* ownership runs a QP is created by the first process of its owner's slot.
NotQpOwner(h, p, q) ==
    qp_table[h][q].owner # p \/ pid[h][p] # FirstPid(p)

\* The MR table, the QP table with both rings, and memory are as before.
C18_Untouched ==
    /\ mr_table' = mr_table /\ qp_table' = qp_table /\ mem' = mem

\* The MR table but for the reference counts.
C18_MrFields(tbl) ==
    [h \in Hosts |-> [m \in MrIds |-> [tbl[h][m] EXCEPT !.refcount = 0]]]

\* mr_deregister by a process that did not register the MR.
C18_MrStep ==
    (/\ last'.op = "mr_deregister" /\ last'.mr \in MrIds
     /\ mr_table[last'.host][last'.mr].valid # 0
     /\ NotMrOwner(last'.host, last'.proc, last'.mr))
    => (last'.ret = -1 /\ C18_Untouched)

\* qp_destroy, qp_poll_cq and qp_connect by a process that did not create
\* the QP.
C18_QpStep ==
    (/\ last'.op \in {"qp_destroy", "qp_poll_cq", "qp_connect"}
     /\ last'.qp \in QpIds
     /\ qp_table[last'.host][last'.qp].valid # 0
     /\ NotQpOwner(last'.host, last'.proc, last'.qp))
    => (last'.ret = -1 /\ C18_Untouched)

\* qp_post_send by a process that did not create the QP or did not register
\* the local MR: nothing is enqueued or executed (so the call can only return
\* -1), and the reference it took on its own MR meanwhile is given back.
C18_PostStep ==
    /\ (/\ last'.op = "post_send" /\ pc[last'.host][last'.proc] = "idle"
        /\ last'.wr.local_mr_id \in MrIds
        /\ mr_table[last'.host][last'.wr.local_mr_id].valid # 0
        /\ NotMrOwner(last'.host, last'.proc, last'.wr.local_mr_id))
       => (last'.ret = -1 /\ C18_Untouched)
    /\ (/\ \/ last'.op \in {"post_mr", "post_enq", "post_rej", "exec"}
           \/ last'.op = "post_send" /\ last'.ret = -1
        /\ last'.qp \in QpIds
        /\ qp_table[last'.host][last'.qp].valid # 0
        /\ NotQpOwner(last'.host, last'.proc, last'.qp))
       => /\ last'.op \in {"post_mr", "post_rej", "post_send"}
          /\ qp_table' = qp_table /\ mem' = mem
          /\ C18_MrFields(mr_table') = C18_MrFields(mr_table)
          /\ last'.op = "post_send" => C4_Inv'

C18_Step == C18_MrStep /\ C18_QpStep /\ C18_PostStep

\* C18: mr_deregister, qp_destroy, qp_post_send, qp_poll_cq and qp_connect
\* called by a process that is not the owner of the named MR or QP, a new
\* process in the slot of an exited owner included, return an error and
\* leave the MR table, the QP table with both rings and memory unchanged.
C18_OwnershipIsolation == [][C18_Step]_vars

\* Process p of host h acquires mr_lock in this step: the executor's
\* refcount--, the refcount-- of an error return of post_send, or the start
\* of mr_register, mr_deregister and post_send.
TakesMrLock(h, p) ==
    \/ pc[h][p] = "ps_fin" /\ pc'[h][p] # "ps_fin"
    \/ pc[h][p] = "ps_undo" /\ pc'[h][p] # "ps_undo"
    \/ /\ pc[h][p] = "idle" /\ last'.host = h /\ last'.proc = p
       /\ last'.op \in {"mr_register", "mr_deregister", "post_mr"}

C19_Step ==
    \A h \in Hosts, p \in Procs : TakesMrLock(h, p) => qp_lock[h] # p

\* C19: no thread acquires the MR lock while it holds the QP lock, in any
\* entry point, the executor that runs inside qp_post_send included.
C19_MrLockBeforeQpLock == [][C19_Step]_vars

\* C20: the WRITE frames transmitted on one connected QP carry strictly
\* increasing sequence numbers, the first 1 and each next the previous plus
\* 1, for any number of transmissions, more than the 32-bit counter has
\* values included.
C20_SeqStrictlyIncreasing ==
    \A i, j \in 1 .. Len(txlog) :
        (i < j /\ txlog[i].host = txlog[j].host /\ txlog[i].qp = txlog[j].qp)
        => /\ txlog[i].seq_num < txlog[j].seq_num
           /\ txlog[i].seq_num = i
           /\ txlog[j].seq_num = j

\* The first n elements of a sequence, or all of it.
FirstN(s, n) == SubSeq(s, 1, Min(n, Len(s)))

C21_Step ==
    \A h \in Hosts :
        (/\ last'.op = "qp_poll_cq" /\ last'.host = h /\ last'.ret >= 0
         /\ ~qp_table[h][last'.qp].network_mode = 1)
        => last'.out = FirstN(last.owed[h][last'.qp], last'.max_comps)

\* C21: in loopback mode the CQEs poll_cq returns, call after call, are the
\* CQEs of the CQE-producing work requests in the order they were posted:
\* every poll hands over the oldest CQEs not yet handed over, up to max.
C21_PollInPostOrder == [][C21_Step]_vars

C22_Step ==
    \A h \in Hosts : \A q \in QpIds :
        (/\ last'.op = "qp_poll_cq" /\ last'.host = h /\ last'.qp = q
         /\ last'.max_comps >= 1
         /\ qp_table[h][q].valid = 1
         /\ qp_table[h][q].owner = last'.proc)
        => LET old == qp_table[h][q]
               new == qp_table'[h][q]
               pending == (old.cq_tail + old.cq_size - old.cq_head)
                              % old.cq_size
               n == IF last'.max_comps < pending THEN last'.max_comps
                    ELSE pending
               good == Cardinality({i \in 1 .. n :
                          old.cq[(old.cq_head + i - 1) % old.cq_size].status
                              = RDMA_WC_SUCCESS})
           IN /\ last'.ret = n
              /\ Len(last'.out) = n
              /\ \A i \in 1 .. n :
                    last'.out[i] = old.cq[(old.cq_head + i - 1) % old.cq_size]
              /\ new = [old EXCEPT
                          !.cq_head = (old.cq_head + n) % old.cq_size,
                          !.stats_completions = (@ + good) % M32,
                          !.stats_errors = (@ + (n - good)) % M32]
              /\ \A g \in Hosts : \A r \in QpIds :
                    <<g, r>> # <<h, q>> => qp_table'[g][r] = qp_table[g][r]
              /\ UNCHANGED <<mr_table, mem, wire, mr_lock, qp_lock>>

\* C22: rdma_qp_poll_cq called by the owner of a valid QP with max >= 1
\* returns n = min(max, number of CQEs between cq_head and cq_tail), hands out
\* the n oldest CQEs in ring order and advances cq_head by n modulo cq_size
\* (0 and no error on an empty CQ); apart from cq_head and the two statistics
\* counters nothing changes: the rest of the QP (sq_head, sq_tail,
\* outstanding_ops, state, pending_acks, cq_tail), every other QP, every MR
\* and all memory stay as they were.
C22_PollCq == [][C22_Step]_vars

\* A poll with max = 1 on a CQ_CAP-entry CQ that held more than one CQE: one
\* CQE came out and at least one is still queued.
C22_Witness ==
    /\ last.op = "qp_poll_cq" /\ last.ret = 1 /\ last.max_comps = 1
    /\ last.host = 1 /\ last.qp = 0
    /\ qp_table[1][0].cq_size = CQ_CAP
    /\ qp_table[1][0].cq_head # qp_table[1][0].cq_tail
    /\ Len(last.owed[1][0]) >= 1

\* One process that uses a QP in loopback and in network mode, destroys it
\* and creates a QP again, which lands in the same slot.
ReusePosts == 2

ReuseWrs ==
    {Wr(3, RDMA_OP_WRITE, RDMA_WR_SIGNALED, 1, 0, 1, 1, 1),
     Wr(2, RDMA_OP_READ, 0, 1, 0, 1, 1, 1),
     Wr(1, RDMA_OP_SEND, RDMA_WR_SIGNALED, 1, 0, 1, 1, 1),
     Wr(2, RDMA_OP_READ_RESP, 0, 1, 0, 1, 1, 1)}

NextReuse ==
    \/ mr_table[1][1].valid = 0 /\ rdma_mr_register(1, 1, 1, 2, OwnFlags)
    \/ FreeQpSlot(1) = 0 /\ rdma_qp_create(1, 1, 2, 2, TRUE, TRUE)
    \/ rdma_qp_connect(1, 1, 0, MacOf(Peer(1)), 0)
    \/ rdma_qp_destroy(1, 1, 0)
    \/ rdma_qp_poll_cq(1, 1, 0, 1)
    \/ \E wr \in ReuseWrs : posts[1] < ReusePosts /\ PostSendMr(1, 1, 0, wr)
    \/ PostSendQp(1, 1)
    \/ PostSendUndo(1, 1)
    \/ ExecDispatch(1, 1, TRUE, TRUE)
    \/ ExecFinish(1, 1)
    \/ PostSendReturn(1, 1)

SpecReuse == Init /\ [][NextReuse]_vars

\* Calls made one after the other by two processes of host 1, with every
\* way a post can be refused: a QP id past the table, an MR of the other
\* process or none, a range past the MR, a QP that is destroyed or belongs to
\* the other process, a send queue of one entry (always full).
RejPosts == 2

RejWrs ==
    {Wr(3, RDMA_OP_WRITE, RDMA_WR_SIGNALED, m, r[1], m, 1, r[2]) :
        m \in MrIds, r \in {<<0, 1>>, <<1, 2>>}}

AllIdle(h) == \A p \in Procs : pc[h][p] = "idle"

NextRej ==
    \/ \E p \in Procs :
            /\ AllIdle(1)
            /\ \A m \in MrIds : mr_table[1][m].owner # p
            /\ rdma_mr_register(1, p, 1, 2, OwnFlags)
    \/ \E s \in {<<1, 2>>, <<2, 2>>} :
            /\ AllIdle(1) /\ FreeQpSlot(1) = 0
            /\ rdma_qp_create(1, 1, s[1], s[2], TRUE, TRUE)
    \/ AllIdle(1) /\ rdma_qp_destroy(1, 1, 0)
    \/ AllIdle(1) /\ rdma_qp_connect(1, 1, 0, MacOf(Peer(1)), 0)
    \/ AllIdle(1) /\ rdma_qp_poll_cq(1, 1, 0, CQ_CAP)
    \/ \E p \in Procs, qp_id \in {0, MAX_QPS}, wr \in RejWrs :
            /\ AllIdle(1) /\ posts[1] < RejPosts
            /\ PostSendMr(1, p, qp_id, wr)
    \/ \E p \in Procs : PostSendQp(1, p)
    \/ \E p \in Procs : PostSendUndo(1, p)
    \/ \E p \in Procs : ExecDispatch(1, p, TRUE, TRUE)
    \/ \E p \in Procs : ExecFinish(1, p)
    \/ \E p \in Procs : PostSendReturn(1, p)

SpecRej == Init /\ [][NextRej]_vars

\* Two hosts whose QPs are connected to each other and may be destroyed at
\* any time, also while a WRITE frame or its ACK travels towards them.
NextGone ==
    \/ \E h \in Hosts :
            mr_table[h][1].valid = 0 /\ rdma_mr_register(h, 1, 1, 2, OwnFlags)
    \/ \E h \in Hosts :
            FreeQpSlot(h) = 0 /\ rdma_qp_create(h, 1, 2, 2, TRUE, TRUE)
    \/ \E h \in Hosts : rdma_qp_connect(h, 1, 0, MacOf(Peer(h)), 0)
    \/ \E h \in Hosts : rdma_qp_destroy(h, 1, 0)
    \/ \E h \in Hosts : rdma_qp_poll_cq(h, 1, 0, 1)
    \/ \E wr \in ReuseWrs : posts[1] < MaxPosts /\ PostSendMr(1, 1, 0, wr)
    \/ PostSendQp(1, 1)
    \/ PostSendUndo(1, 1)
    \/ ExecDispatch(1, 1, TRUE, TRUE)
    \/ ExecFinish(1, 1)
    \/ PostSendReturn(1, 1)
    \/ \E h \in Hosts : rdma_net_rx(h, 1, TRUE, TRUE)

SpecGone == Init /\ [][NextGone]_vars

\* Two processes, each with its own MR and its own QP, posting at the same
\* time: the calls meet at qp_lock.
LockPosts == 2

NextLock ==
    \/ \E p \in Procs :
            /\ \A m \in MrIds : mr_table[1][m].owner # p
            /\ rdma_mr_register(1, p, 1, 2, OwnFlags)
    \/ \E p \in Procs :
            /\ FreeQpSlot(1) = p - 1
            /\ rdma_qp_create(1, p, 2, 2, TRUE, TRUE)
    \/ \E p \in Procs : rdma_qp_poll_cq(1, p, p - 1, CQ_CAP)
    \/ \E p \in Procs, wr \in OwnWrs :
            posts[1] < LockPosts /\ PostSendMr(1, p, p - 1, wr)
    \/ \E p \in Procs : PostSendQp(1, p)
    \/ \E p \in Procs : PostSendUndo(1, p)
    \/ \E p \in Procs : ExecDispatch(1, p, TRUE, TRUE)
    \/ \E p \in Procs : ExecFinish(1, p)
    \/ \E p \in Procs : PostSendReturn(1, p)

SpecLock == Init /\ [][NextLock]_vars

\* Two processes on two CPUs of host 1, each with its own MR and QP, that
\* post and deregister at the same time; a deregister call stays inside the
\* critical section of mr_lock while the other CPU runs.
NextRace ==
    \/ \E p \in Procs :
            /\ \A m \in MrIds : mr_table[1][m].owner # p
            /\ rdma_mr_register(1, p, 1, 2, OwnFlags)
    \/ \E p \in Procs, m \in MrIds : MrDeregAcquire(1, p, m)
    \/ \E p \in Procs : MrDeregLocked(1, p)
    \/ \E p \in Procs :
            /\ FreeQpSlot(1) = p - 1
            /\ rdma_qp_create(1, p, 2, 2, TRUE, TRUE)
    \/ \E p \in Procs, wr \in OwnWrs :
            posts[1] < LockPosts /\ PostSendMr(1, p, p - 1, wr)
    \/ \E p \in Procs : PostSendQp(1, p)
    \/ \E p \in Procs : PostSendUndo(1, p)
    \/ \E p \in Procs : ExecDispatch(1, p, TRUE, TRUE)
    \/ \E p \in Procs : ExecFinish(1, p)
    \/ \E p \in Procs : PostSendReturn(1, p)

SpecRace == Init /\ [][NextRace]_vars

\* WRITE work requests on MR 1 with every kind of local range: inside the
\* MR, past its end, and with an offset so large that offset + length is
\* more than a uint64 holds.
BndWrs ==
    {Wr(3, RDMA_OP_WRITE, RDMA_WR_SIGNALED, 1, loff, 1, 1, len) :
        loff \in {0, 1, 2, M64 - 2, M64 - 1}, len \in 0 .. 3}

\* One process with an MR of two bytes and a loopback QP posts them.
NextBnd ==
    \/ mr_table[1][1].valid = 0 /\ rdma_mr_register(1, 1, 1, 2, OwnFlags)
    \/ FreeQpSlot(1) = 0 /\ rdma_qp_create(1, 1, 2, 2, TRUE, TRUE)
    \/ rdma_qp_poll_cq(1, 1, 0, 1)
    \/ \E wr \in BndWrs : posts[1] < LockPosts /\ PostSendMr(1, 1, 0, wr)
    \/ PostSendQp(1, 1)
    \/ PostSendUndo(1, 1)
    \/ ExecDispatch(1, 1, TRUE, TRUE)
    \/ ExecFinish(1, 1)
    \/ PostSendReturn(1, 1)

SpecBnd == Init /\ [][NextBnd]_vars

\* Transfers against mr_deregister.  Process 1 of host 1 owns an MR and a QP,
\* loopback or connected to the QP of process 1 of host 2, and posts; on both
\* hosts either process may be inside mr_deregister on another CPU at any
\* moment.  The receive interrupt is taken on a CPU whose process holds no
\* spinlock (acquire() disables interrupts).
NextXfer ==
    \/ \E h \in Hosts :
            mr_table[h][1].valid = 0 /\ rdma_mr_register(h, 1, 1, 2, OwnFlags)
    \/ \E h \in Hosts, p \in Procs : MrDeregAcquire(h, p, 1)
    \/ \E h \in Hosts, p \in Procs : MrDeregLocked(h, p)
    \/ \E h \in Hosts :
            FreeQpSlot(h) = 0 /\ rdma_qp_create(h, 1, 2, 2, TRUE, TRUE)
    \/ \E h \in Hosts : rdma_qp_connect(h, 1, 0, MacOf(Peer(h)), 0)
    \/ \E wr \in OwnWrs : posts[1] < LockPosts /\ PostSendMr(1, 1, 0, wr)
    \/ PostSendQp(1, 1)
    \/ PostSendUndo(1, 1)
    \/ ExecDispatch(1, 1, TRUE, TRUE)
    \/ ExecFinish(1, 1)
    \/ PostSendReturn(1, 1)
    \/ \E h \in Hosts, cur \in Procs :
            mr_lock[h] # cur /\ rdma_net_rx(h, cur, TRUE, TRUE)

SpecXfer == Init /\ [][NextXfer]_vars

\* The process slots that are between acquire(&qp_lock) and release(&qp_lock):
\* inside post_send, from the enqueue to the return.
C23_InQpLock(h) == {p \in Procs : pc[h][p] \in {"ps_exec", "ps_fin"}}

\* C23: after rdma_init every MR slot has valid = 0, id = 0, refcount = 0,
\* every QP slot has valid = 0, state = RESET, outstanding_ops = 0 and neither
\* lock is held; from then on qp_lock is held by a process exactly while that
\* process is between its acquire and its release, by one process at a time,
\* and mr_lock, taken and released within single steps, is free between them.
C23_InitAndLocks ==
    /\ last.op = "init" =>
          \A h \in Hosts :
              /\ \A i \in MrIds :
                    /\ mr_table[h][i].valid = 0
                    /\ mr_table[h][i].id = 0
                    /\ mr_table[h][i].refcount = 0
              /\ \A q \in QpIds :
                    /\ qp_table[h][q].valid = 0
                    /\ qp_table[h][q].state = QP_STATE_RESET
                    /\ qp_table[h][q].outstanding_ops = 0
              /\ mr_lock[h] = 0
              /\ qp_lock[h] = 0
    /\ \A h \in Hosts :
          /\ mr_lock[h] = 0
          /\ Cardinality(C23_InQpLock(h)) <= 1
          /\ \A p \in Procs : qp_lock[h] = p <=> p \in C23_InQpLock(h)
          /\ qp_lock[h] = 0 <=> C23_InQpLock(h) = {}

\* One process holds qp_lock inside its executor pass while the other has
\* passed the MR stage of its own post_send and waits for the lock.
C23_Witness ==
    \E p \in Procs : \E r \in Procs :
        /\ p # r
        /\ qp_lock[1] = p /\ pc[1][p] = "ps_fin"
        /\ pc[1][r] = "ps_qp"

C24_Step ==
    \A h \in Hosts : \A q \in QpIds :
        (last'.op = "qp_create" /\ last'.host = h /\ last'.ret = q)
        => LET qp == qp_table'[h][q]
           IN /\ qp_table[h][q].valid = 0
              /\ qp.valid = 1 /\ qp.id = q /\ qp.owner = last'.proc
              /\ qp.state = QP_STATE_INIT
              /\ qp.sq_size = last'.sq_size /\ qp.cq_size = last'.cq_size
              /\ qp.sq_head = 0 /\ qp.sq_tail = 0
              /\ qp.cq_head = 0 /\ qp.cq_tail = 0
              /\ qp.outstanding_ops = 0
              /\ qp.connected = 0 /\ qp.network_mode = 0
              /\ qp.tx_seq_num = 0
              /\ \A i \in AckIdx : qp.pending_acks[i].valid = 0
              /\ qp.stats_sends = 0 /\ qp.stats_completions = 0
              /\ qp.stats_errors = 0

\* C24: every successful rdma_qp_create yields a fresh QP in a slot that was
\* free: valid, owned by the caller, in INIT, both rings empty at index 0,
\* outstanding_ops = 0, not connected, loopback mode, tx_seq_num = 0, no valid
\* pending_acks entry and all statistics 0, whatever the slot held before.
C24_CreateIsFresh == [][C24_Step]_vars

\* A create that reuses the slot of a destroyed QP which was connected, had
\* sent a frame, held a pending ACK and an unreaped completion.
C24_Witness ==
    /\ last.op = "qp_create" /\ last.ret = 0 /\ last.host = 1
    /\ last.old_qp.connected = 1 /\ last.old_qp.network_mode = 1
    /\ last.old_qp.tx_seq_num > 1
    /\ last.old_qp.pending /\ last.old_qp.unreaped
    /\ last.old_qp.stats_sends > 0
    /\ qp_table[1][0].valid = 1

\* A call on QP q of host h, or a frame addressed to it, while the slot is
\* not in use, fails and leaves the QP table as it was.
C25_GoneStep(h, q) ==
    /\ (/\ last'.op \in {"qp_poll_cq", "qp_connect", "qp_destroy"}
        /\ last'.host = h /\ last'.qp = q)
       => (last'.ret = -1 /\ qp_table' = qp_table)
    /\ (/\ last'.op \in {"post_enq", "post_rej"}
        /\ last'.host = h /\ last'.qp = q)
       => /\ last'.op = "post_rej"
          /\ pc'[h][last'.proc] = "ps_undo"
          /\ qp_table' = qp_table
    /\ (/\ last'.op = "rx" /\ last'.host = h
        /\ last'.frame.hdr /\ ntohs(last'.frame.dst_qp) = q)
       => /\ last'.ret = -1
          /\ qp_table' = qp_table
          /\ mem' = mem
          /\ wire'[Peer(h)] = wire[Peer(h)]

C25_Step ==
    \A h \in Hosts :
        /\ \A q \in QpIds :
              /\ (/\ last'.op = "qp_destroy" /\ last'.host = h /\ last'.qp = q
                  /\ qp_table[h][q].valid = 1
                  /\ qp_table[h][q].owner = last'.proc)
                 => /\ last'.ret = 0
                    /\ qp_table'[h][q].valid = 0
                    /\ qp_table'[h][q].sq_ptr = 2
                    /\ qp_table'[h][q].cq_ptr = 2
              /\ qp_table[h][q].valid = 0 => C25_GoneStep(h, q)
        /\ (/\ last'.op = "qp_create" /\ last'.host = h /\ last'.kalloc
            /\ ~C15_BadSize(last'.sq_size, RING_CAP)
            /\ ~C15_BadSize(last'.cq_size, CQ_CAP)
            /\ FreeQps(h) # {})
           => /\ last'.ret \in FreeQps(h)
              /\ \A r \in FreeQps(h) : last'.ret <= r

\* C25: rdma_qp_destroy called by the owner of a valid QP succeeds whatever
\* the QP's state, frees both ring pages and marks the slot invalid; while the
\* slot is invalid, post_send, poll_cq, connect and destroy on its id fail and
\* every frame (WRITE or ACK) addressed to it is dropped with no ACK, leaving
\* the QP table and memory unchanged; a later create with legal sizes takes
\* the lowest free slot, so a destroyed slot is handed out again.
C25_DestroyedQpIsGone == [][C25_Step]_vars

\* An ACK that arrives at host 1 after the QP it is addressed to was
\* destroyed, and is dropped.
C25_Witness ==
    /\ last.op = "rx" /\ last.host = 1 /\ last.ret = -1
    /\ last.frame.hdr /\ last.frame.opcode = RDMA_NET_OP_ACK
    /\ ntohs(last.frame.dst_qp) = 0
    /\ qp_table[1][0].valid = 0
    /\ qp_table[1][0].sq_ptr = 2

\* Whether the call of process p that is about to return -1 was refused for a
\* full send queue: it passed the MR stage and the QP is the caller's, in a
\* posting state, with no free SQ entry.
C26_SqFullCase(h, p, q) ==
    /\ pc[h][p] = "ps_undo"
    /\ q \in QpIds
    /\ qp_table[h][q].valid = 1 /\ qp_table[h][q].owner = p
    /\ qp_table[h][q].state \in {QP_STATE_INIT, QP_STATE_RTR, QP_STATE_RTS}
    /\ (qp_table[h][q].sq_tail + 1) % qp_table[h][q].sq_size
          = qp_table[h][q].sq_head

C26_Step ==
    \A h \in Hosts :
        /\ (last'.op = "post_send" /\ last'.ret = -1 /\ last'.host = h)
           => LET b == last'.before
                  q == last'.qp
              IN /\ \A m \in MrIds : mr_table'[h][m].refcount = b.refs[m]
                 /\ Len(wire'[Peer(h)]) = b.sent
                 /\ qp_table' = qp_table /\ mem' = mem /\ wire' = wire
                 /\ q \in QpIds =>
                      LET n == QpCounters(qp_table'[h][q])
                      IN /\ n.sq_head = b.qp.sq_head
                         /\ n.sq_tail = b.qp.sq_tail
                         /\ n.outstanding_ops = b.qp.outstanding_ops
                         /\ n.cq_tail = b.qp.cq_tail
                         /\ n.stats_sends = b.qp.stats_sends
                         /\ n.stats_errors =
                              IF C26_SqFullCase(h, last'.proc, q)
                              THEN (b.qp.stats_errors + 1) % M32
                              ELSE b.qp.stats_errors
        /\ (last'.op = "post_rej" /\ last'.host = h)
           => /\ mr_table' = mr_table /\ mem' = mem /\ wire' = wire
              /\ \A q \in QpIds :
                    [qp_table'[h][q] EXCEPT !.stats_errors = 0]
                        = [qp_table[h][q] EXCEPT !.stats_errors = 0]

\* C26: when rdma_qp_post_send returns -1 (QP id out of range, local MR
\* invalid or not the caller's, range past the MR, QP invalid or not the
\* caller's, state not INIT/RTR/RTS, send queue full), no CQE was appended, no
\* work request enqueued and no frame sent: every MR refcount and the QP's
\* sq_head, sq_tail, outstanding_ops, cq_tail and stats_sends are what they
\* were when the call started, and stats_errors is one higher exactly when
\* the refusal was for a full send queue.
C26_FailedPostChangesNothing == [][C26_Step]_vars

\* A post refused because the one-entry send queue is full: the refcount it
\* had raised is back at its old value and stats_errors went up by one.
C26_Witness ==
    /\ last.op = "post_send" /\ last.ret = -1 /\ last.host = 1 /\ last.qp = 0
    /\ qp_table[1][0].valid = 1 /\ qp_table[1][0].owner = last.proc
    /\ qp_table[1][0].sq_size = 1
    /\ last.mr \in MrIds
    /\ qp_table[1][0].stats_errors = (last.before.qp.stats_errors + 1) % M32
    /\ mr_table[1][last.mr].refcount = last.before.refs[last.mr]

C27_Step ==
    (/\ last'.op = "exec"
     /\ last'.wr.opcode \in {RDMA_OP_READ, RDMA_OP_SEND, RDMA_OP_READ_RESP})
    => /\ Len(last'.cqes) = 1
       /\ last'.cqes[1].status = RDMA_WC_LOC_PROT_ERR
       /\ last'.cqes[1].wr_id = last'.wr.wr_id
       /\ mem' = mem
       /\ wire' = wire

\* C27: the executor's pass over an accepted work request with opcode READ,
\* SEND or READ_RESP appends exactly one CQE, with status LOC_PROT_ERR and the
\* work request's wr_id, writes no memory and sends no frame, on a loopback
\* QP and on a connected QP in network mode alike.
C27_UnsupportedOpcodeFails == [][C27_Step]_vars

C28_Step ==
    \A h \in Hosts : \A q \in QpIds :
        (/\ last'.op = "exec" /\ last'.host = h /\ last'.qp = q
         /\ last'.netmode /\ last'.mr # 0
         /\ last'.wr.opcode = RDMA_OP_WRITE
         /\ last'.sent = <<>>)
        => /\ Len(last'.cqes) = 1
           /\ last'.cqes[1].status # RDMA_WC_SUCCESS
           /\ last'.cqes[1].wr_id = last'.wr.wr_id
           /\ qp_table'[h][q].pending_acks = qp_table[h][q].pending_acks

\* C28: when the executor's transmit of a network WRITE fails, so that no
\* frame reaches the link (no buffer, a payload that does not fit, or the
\* NIC's transmit ring full), it appends an error CQE for the work request
\* in the same pass and records no pending_acks entry; a pending_acks entry
\* is recorded only for a frame the link took.
C28_TxFailureCompletesInline == [][C28_Step]_vars

\* The valid pending_acks entries of qp that carry seq_num and wr_id.
C29_Entries(qp, seq_num, wr_id) ==
    {i \in AckIdx : /\ qp.pending_acks[i].valid = 1
                    /\ qp.pending_acks[i].seq_num = seq_num
                    /\ qp.pending_acks[i].wr_id = wr_id}

\* The executor pass that put a WRITE frame on the link.
C29_Transmit(h, q) ==
    /\ last'.op = "exec" /\ last'.host = h /\ last'.qp = q
    /\ last'.netmode /\ last'.mr # 0
    /\ last'.wr.opcode = RDMA_OP_WRITE
    /\ last'.sent # <<>>

C29_Step ==
    /\ \A h \in Hosts : \A q \in QpIds :
          C29_Transmit(h, q)
          => LET old == qp_table[h][q]
                 new == qp_table'[h][q]
             IN /\ last'.cqes = <<>>
                /\ ntohl(last'.frame.seq_num) = old.tx_seq_num
                /\ new.tx_seq_num = (old.tx_seq_num + 1) % M32
                /\ Cardinality(C29_Entries(new, old.tx_seq_num,
                                           last'.wr.wr_id)) = 1
    /\ \A k \in 1 .. Len(txlog') :
          (txlog'[k].onlink /\ txlog'[k].acks = 0)
          => Cardinality(C29_Entries(qp_table'[txlog'[k].host][txlog'[k].qp],
                                    txlog'[k].seq_num, txlog'[k].wr_id)) = 1

\* C29: the executor pass that hands a network WRITE frame to the link
\* records a pending_acks entry with the frame's seq_num and the work
\* request's wr_id, then increments tx_seq_num, and appends no CQE; so every
\* transmitted frame whose ACK has not been processed has exactly one valid
\* pending_acks entry, however many frames are unacknowledged.
C29_EveryFrameIsPending == [][C29_Step]_vars

C30_SlotOk(qp) ==
    /\ qp.state = QP_STATE_RESET =>
          /\ qp.sq_head = qp.sq_tail
          /\ qp.cq_head = qp.cq_tail
          /\ qp.connected = 0
    /\ qp.state = QP_STATE_RTS =>
          /\ qp.connected = 1
          /\ qp.network_mode = 1

\* C30: in every reachable state every QP slot in state RESET has an empty
\* SQ and CQ (sq_head = sq_tail, cq_head = cq_tail) and connected = false, and
\* every slot in state RTS has connected = true and network_mode = true; also
\* a slot whose QP was destroyed while connected or with unreaped CQEs.
C30_StateFieldsAgree ==
    \A h \in Hosts : \A q \in QpIds : C30_SlotOk(qp_table[h][q])

\* x moved by at most one step of (x + 1) mod size.
C31_Moved(old, new, size) == new = old \/ new = (old + 1) % size

\* Sizes and cursors of a valid QP.
C31_Shape(qp) ==
    /\ IsPow2(qp.sq_size) /\ qp.sq_size <= RING_CAP
    /\ IsPow2(qp.cq_size) /\ qp.cq_size <= CQ_CAP
    /\ qp.sq_head \in 0 .. (qp.sq_size - 1)
    /\ qp.sq_tail \in 0 .. (qp.sq_size - 1)
    /\ qp.cq_head \in 0 .. (qp.cq_size - 1)
    /\ qp.cq_tail \in 0 .. (qp.cq_size - 1)

\* The cursors of a QP that stays valid move one step at a time; poll_cq
\* moves cq_head once for each CQE it returns.
C31_Moves(old, new) ==
    /\ C31_Moved(old.sq_head, new.sq_head, old.sq_size)
    /\ C31_Moved(old.sq_tail, new.sq_tail, old.sq_size)
    /\ C31_Moved(old.cq_tail, new.cq_tail, old.cq_size)
    /\ new.cq_head = IF last'.op = "qp_poll_cq" /\ last'.ret > 0
                     THEN (old.cq_head + last'.ret) % old.cq_size
                     ELSE old.cq_head
    /\ new.sq_size = old.sq_size /\ new.cq_size = old.cq_size

\* Empty and full as the code treats them, except for a full CQ.
C31_EmptyFull(old, new, q) ==
    /\ new.sq_tail # old.sq_tail =>
          (old.sq_tail + 1) % old.sq_size # old.sq_head
    /\ (/\ last'.op = "post_rej" /\ last'.qp = q
        /\ old.owner = last'.proc
        /\ old.state \in {QP_STATE_INIT, QP_STATE_RTR, QP_STATE_RTS})
       => (old.sq_tail + 1) % old.sq_size = old.sq_head
    /\ new.sq_head # old.sq_head => old.sq_head # old.sq_tail
    /\ (/\ last'.op = "qp_poll_cq" /\ last'.qp = q
        /\ old.owner = last'.proc /\ last'.max_comps >= 1)
       => (last'.ret = 0 <=> old.cq_head = old.cq_tail)

\* A CQE is appended only to a CQ that is not full.
C31_CqFull(old, new) ==
    new.cq_tail # old.cq_tail => (old.cq_tail + 1) % old.cq_size # old.cq_head

C31_Step ==
    \A h \in Hosts : \A q \in QpIds :
        LET old == qp_table[h][q]
            new == qp_table'[h][q]
        IN /\ new.valid = 1 => C31_Shape(new)
           /\ (old.valid = 1 /\ new.valid = 1 /\ last'.host = h)
              => /\ C31_Moves(old, new)
                 /\ C31_EmptyFull(old, new, q)
                 /\ C31_CqFull(old, new)

\* C31: every valid QP has power-of-two ring sizes within one page and all
\* four cursors inside their rings; a cursor only moves by (x + 1) mod size;
\* a ring is treated as empty exactly when head = tail (the executor stops,
\* poll_cq returns 0) and as full exactly when (tail + 1) mod size = head
\* (post_send refuses; no CQE is appended).
C31_RingDiscipline == [][C31_Step]_vars

\* Thread p of host h reads or writes a field of an MR slot in this step under
\* mr_lock: mr_register, the locked part of mr_deregister, the MR stage of
\* post_send, and the refcount-- of the executor and of an error return.
C32_LockedAccess(h, p) ==
    \/ pc[h][p] = "dereg" /\ pc'[h][p] # "dereg"
    \/ pc[h][p] = "ps_fin" /\ pc'[h][p] # "ps_fin"
    \/ pc[h][p] = "ps_undo" /\ pc'[h][p] # "ps_undo"
    \/ /\ pc[h][p] = "idle" /\ last'.host = h /\ last'.proc = p
       /\ last'.op \in {"mr_register", "post_mr", "post_send"}

\* The executor's rdma_mr_get of the source and of the destination MR.
C32_ExecutorLookup(h, p) == pc[h][p] = "ps_exec" /\ pc'[h][p] # "ps_exec"

C32_Held(h, p) == mr_lock[h] \in {0, p}

C32_Step ==
    \A h \in Hosts, p \in Procs :
        (C32_LockedAccess(h, p) \/ C32_ExecutorLookup(h, p)) => C32_Held(h, p)

\* C32: every read or write of a field of an MR table slot, by mr_register,
\* mr_deregister, post_send and the executor's source and destination
\* lookups, happens while the accessing thread holds the MR lock: no other
\* thread is inside the critical section of mr_lock at that moment.
C32_MrAccessUnderLock == [][C32_Step]_vars

\* The physical bytes of an MR.
C33_MrSpan(mr) == {mr.paddr + i : i \in 0 .. (mr.length - 1)}

\* MR m of host h is registered and no thread inside the critical section of
\* mr_deregister is about to clear it.
C33_Live(h, m) ==
    /\ mr_table[h][m].valid = 1
    /\ \A p \in Procs :
          (pc[h][p] = "dereg" /\ ctx[h][p].mr = m) => ~DeregOk(h, p, m)

\* The physical bytes this step copies out of or into: the source of a
\* loopback memcpy or of a frame's payload, the destination of a loopback
\* memcpy or of a received payload.
C33_Touched ==
    IF last'.op = "exec"
    THEN last'.writes \cup
         (IF last'.src # <<>>
          THEN Span(last'.wr.local_offset, Len(last'.src)) ELSE {})
    ELSE IF last'.op = "rx" THEN last'.writes
    ELSE {}

\* Process p is between the refcount++ and the refcount-- of a post_send that
\* names MR m as source or, on a loopback QP, as destination.
C33_InFlight(h, p, m) ==
    /\ pc[h][p] \in {"ps_qp", "ps_exec", "ps_fin"}
    /\ \/ ctx[h][p].mr = m
       \/ /\ ctx[h][p].wr.remote_mr_id = m
          /\ pc[h][p] # "ps_qp"
          /\ ~NetworkBranch(qp_table[h][ctx[h][p].qp])

C33_Step ==
    /\ (last'.op = "mr_deregister" /\ last'.ret = 0)
       => \A p \in Procs : ~C33_InFlight(last'.host, p, last'.mr)
    /\ \A a \in C33_Touched :
          \E m \in MrIds : /\ C33_Live(last'.host, m)
                           /\ a \in C33_MrSpan(mr_table[last'.host][m])

\* C33: mr_deregister never succeeds for an MR while a post_send that copies
\* out of or into it is in flight, and every byte a loopback memcpy, a frame
\* payload copy or a received payload write touches belongs to an MR that is
\* registered and not being cleared by a deregister on another CPU.
C33_NoCopyAfterDeregister == [][C33_Step]_vars

\* A received payload is written on host 2 while its other process is inside
\* mr_deregister, and on host 1 a second transfer is in flight while the
\* other process is inside mr_deregister of the source MR.
C33_Witness ==
    /\ last.op = "rx" /\ last.host = 2 /\ last.writes # {}
    /\ pc[2][2] = "dereg" /\ ctx[2][2].mr = 1
    /\ pc[1][1] = "ps_exec" /\ ctx[1][1].mr = 1
    /\ pc[1][2] = "dereg" /\ ctx[1][2].mr = 1

\* The MR stage of post_send accepted the WR: its local range is inside the
\* MR as integers, and so is the physical span kept for the kernel WR.
C34_Accepted(h, p) ==
    LET wr == last'.wr
        mr == mr_table[h][last'.mr]
    IN /\ wr.local_offset + wr.length <= mr.length
       /\ \A a \in Span(ctx'[h][p].physical_offset, wr.length) :
             mr.paddr <= a /\ a < mr.paddr + mr.length

\* The executor copies out of the physical span of the kernel WR.
C34_Copied(h) ==
    LET wr == last'.wr
        mr == mr_table[h][last'.mr]
    IN \A a \in Span(wr.local_offset, Len(last'.src)) :
          mr.paddr <= a /\ a < mr.paddr + mr.length

C34_Step ==
    /\ last'.op = "post_mr" => C34_Accepted(last'.host, last'.proc)
    /\ (last'.op = "exec" /\ last'.src # <<>>) => C34_Copied(last'.host)

\* C34: post_send accepts a WR only if local_offset + length <= the length of
\* the local MR as integers, for every 64-bit offset and 32-bit length, so
\* the physical source span of the kernel WR lies inside the MR's physical
\* span and the executor copies out of the MR only.
C34_LocalBounds == [][C34_Step]_vars

\* Thread p of host h is at an acquire(): of qp_lock in post_send, of mr_lock
\* in the executor's refcount-- (with qp_lock held) and in the refcount-- of an
\* error return.
C35_WantsQp(h, p) == pc[h][p] = "ps_qp"
C35_WantsMr(h, p) == pc[h][p] \in {"ps_fin", "ps_undo"}

\* Thread p waits for a lock that thread q holds.
C35_Waits(h, p, q) ==
    \/ C35_WantsQp(h, p) /\ qp_lock[h] = q
    \/ C35_WantsMr(h, p) /\ mr_lock[h] = q

\* The next step of some thread of host h that is inside an entry point.
C35_MidStep(h) ==
    \E q \in Procs :
        \/ MrDeregLocked(h, q) \/ PostSendQp(h, q) \/ PostSendUndo(h, q)
        \/ ExecDispatch(h, q, TRUE, TRUE) \/ ExecFinish(h, q)
        \/ PostSendReturn(h, q)

\* C35: no reachable state has threads waiting in a cycle on the MR lock and
\* the QP lock (none waits for a lock it holds itself, no two wait for each
\* other, and while any thread is inside an entry point one of them can
\* take its next step), and a thread that has returned from its entry point
\* holds neither lock.
C35_NoDeadlockLocksReleased ==
    \A h \in Hosts :
        /\ \A p \in Procs :
              /\ ~C35_Waits(h, p, p)
              /\ pc[h][p] = "idle" => (mr_lock[h] # p /\ qp_lock[h] # p)
        /\ \A p, q \in Procs : ~(C35_Waits(h, p, q) /\ C35_Waits(h, q, p))
        /\ (\E p \in Procs : pc[h][p] # "idle") => ENABLED C35_MidStep(h)
        /\ mr_lock[h] \in Procs \cup {0} /\ qp_lock[h] \in Procs \cup {0}

\* The executor of process 1 holds qp_lock and waits at acquire(&mr_lock)
\* for process 2, which is inside mr_deregister.
C35_Witness ==
    /\ qp_lock[1] = 1 /\ pc[1][1] = "ps_fin"
    /\ mr_lock[1] = 2 /\ pc[1][2] = "dereg"
    /\ C35_Waits(1, 1, 2)

\* While qp_lock is free every valid QP of the host has an empty send queue
\* and nothing outstanding.
C36_Drained ==
    \A h \in Hosts, q \in QpIds :
        (qp_lock[h] = 0 /\ qp_table[h][q].valid = 1)
        => /\ qp_table[h][q].sq_head = qp_table[h][q].sq_tail
           /\ qp_table[h][q].outstanding_ops = 0

\* post_send reaches the SQ-full test of a QP of the caller: it reports full
\* exactly when sq_size = 1; and nothing is ever enqueued on such a QP.
C36_FullStep ==
    \A h \in Hosts, p \in Procs :
        (pc[h][p] = "ps_qp" /\ pc'[h][p] # "ps_qp")
        => LET qp == qp_table[h][ctx[h][p].qp]
               tested == qp.valid = 1 /\ qp.owner = p /\ QpStateOk(qp)
           IN /\ tested => (pc'[h][p] = "ps_undo" <=> qp.sq_size = 1)
              /\ (qp.valid = 1 /\ qp.sq_size = 1) => pc'[h][p] = "ps_undo"
              /\ (tested /\ qp.sq_size = 1)
                 => qp_table'[h][ctx[h][p].qp].stats_errors
                       = (qp.stats_errors + 1) % M32

\* C36: the executor drains the SQ inline, so whenever the QP lock is not
\* held every valid QP has sq_head = sq_tail and outstanding_ops = 0, in
\* loopback and in network mode with unacknowledged frames; post_send
\* reports SQ-full exactly when sq_size = 1, and on a QP with sq_size = 1
\* every post_send fails.
C36_SqDrainedInline == []C36_Drained /\ [][C36_FullStep]_vars

\* A post_send was refused for a full send queue on a connected QP with
\* sq_size = 1, after a frame was transmitted that nobody acknowledged, and
\* qp_lock is free again.
C36_Witness ==
    /\ last.op = "post_rej" /\ qp_lock[1] = 0
    /\ qp_table[1][last.qp].valid = 1 /\ qp_table[1][last.qp].sq_size = 1
    /\ qp_table[1][last.qp].owner = last.proc
    /\ qp_table[1][last.qp].network_mode = 1
    /\ txlog # <<>>

\* The CQEs appended to the CQ of QP q and not yet returned by poll_cq are
\* all in the ring, oldest at cq_head, and leave one entry free.
C37_Kept(h, q) ==
    LET qp == qp_table[h][q]
        owed == last.owed[h][q]
    IN /\ Len(owed) <= qp.cq_size - 1
       /\ owed # <<>> => qp.cq_head # qp.cq_tail
       /\ Len(owed) = (qp.cq_tail + qp.cq_size - qp.cq_head) % qp.cq_size
       /\ \A i \in 1 .. Len(owed) :
             i <= qp.cq_size => qp.cq[(qp.cq_head + i - 1) % qp.cq_size] = owed[i]

\* C37: no completion is lost: a CQE that was appended is never overwritten
\* or made unreachable before poll_cq returned it; the appended CQEs not yet
\* reaped never exceed cq_size - 1, and an append never leaves a non-empty CQ
\* with cq_head = cq_tail, for every accepted cq_size, 1 included.
C37_NoCompletionLost ==
    \A h \in Hosts, q \in QpIds : qp_table[h][q].valid = 1 => C37_Kept(h, q)

\* A slot in use is in INIT or RTS, a free slot is in RESET.
C38_StateOk ==
    \A h \in Hosts, q \in QpIds :
        IF qp_table[h][q].valid = 1
        THEN qp_table[h][q].state \in {QP_STATE_INIT, QP_STATE_RTS}
        ELSE qp_table[h][q].state = QP_STATE_RESET

\* A QP starts in INIT, and the state of a QP that stays valid changes only
\* from INIT to RTS, in a successful qp_connect on that QP.
C38_Step ==
    \A h \in Hosts, q \in QpIds :
        LET old == qp_table[h][q]
            new == qp_table'[h][q]
        IN /\ (old.valid = 0 /\ new.valid = 1) => new.state = QP_STATE_INIT
           /\ (old.valid = 1 /\ new.valid = 1 /\ new.state # old.state)
              => /\ old.state = QP_STATE_INIT /\ new.state = QP_STATE_RTS
                 /\ last'.op = "qp_connect" /\ last'.ret = 0
                 /\ last'.host = h /\ last'.qp = q

\* C38: a valid QP is always in INIT or RTS; its state changes only from INIT
\* to RTS by a successful qp_connect; RTR and ERROR are never entered and RTS
\* never goes back to INIT; an invalid slot is always in RESET.
C38_ReachableQpStates == []C38_StateOk /\ [][C38_Step]_vars

\* The connected QP of host 2 has taken a WRITE frame and is in RTS, while
\* the QP of host 1 that sent it has been destroyed and its slot is in RESET.
C38_Witness ==
    /\ last.op = "rx" /\ last.host = 2 /\ last.writes # {}
    /\ qp_table[2][0].valid = 1 /\ qp_table[2][0].state = QP_STATE_RTS
    /\ qp_table[1][0].valid = 0 /\ qp_table[1][0].sq_ptr = 2
    /\ qp_table[1][0].state = QP_STATE_RESET

\* Frame f comes from the peer the QP is connected to.
C39_FromPeer(qp, f) ==
    /\ qp.state = QP_STATE_RTS /\ qp.connected = 1
    /\ f.shost = qp.remote_mac
    /\ ntohs(f.src_qp) = qp.remote_qp_num

\* A receive step that writes memory or appends a CQE was for a frame from
\* the connected peer of the QP it names.
C39_Step ==
    \A h \in Hosts :
        (/\ last'.op = "rx" /\ last'.host = h /\ wire[h] # <<>>
         /\ (last'.writes # {} \/ last'.cqes # <<>> \/ mem'[h] # mem[h]))
        => C39_FromPeer(qp_table[h][ntohs(Head(wire[h]).dst_qp)], Head(wire[h]))

\* C39: rdma_net_rx applies an inbound WRITE or ACK to a QP only if the QP is
\* connected (RTS) and the frame comes from its connected peer (source MAC =
\* remote_mac and src_qp = remote_qp_num); frames from another source or to
\* a QP still in INIT never write memory and never complete a WR.
C39_PeerBinding == [][C39_Step]_vars

\* rdma_net_rx took a WRITE frame for a valid QP: it applied it (memory
\* written, CQE appended, ACK built) exactly if the frame passes the checks
\* with any process, or none, running on the receiving CPU.
C40_Step ==
    \A h \in Hosts :
        (/\ last'.op = "rx" /\ last'.host = h /\ wire[h] # <<>>
         /\ Head(wire[h]).opcode = RDMA_NET_OP_WRITE
         /\ RxQpOk(h, Head(wire[h])))
        => \A c \in Procs \cup {NoProc} :
              (last'.ret = 0) <=> RxWriteOk(h, c, Head(wire[h]))

\* C40: whether rdma_net_rx applies and acknowledges an inbound WRITE or
\* drops it depends only on the frame and on the QP and MR tables, not on
\* which process is running on the receiving CPU.
C40_RxIndependentOfCurrent == [][C40_Step]_vars
====
